---------------------------- MODULE Spec2Model ----------------------------
(***************************************************************************)
(* A model of the pgfplots crate: the option sequences of the tree nodes   *)
(* (Axis, Plot2D, TikzPicture, Histogram), the document with its preamble  *)
(* and the propagation of required libraries, the text the document        *)
(* renders to, the compile pipeline of LatexOutput and LatexOutput::save.  *)
(*                                                                         *)
(* An option is a record [kind, value]: kind is the enum variant (what     *)
(* std::mem::discriminant compares), value is its payload.  A Custom       *)
(* option's payload is its text, numbered.                                 *)
(***************************************************************************)
EXTENDS Integers, Sequences, FiniteSets, TLC

VARIABLES
    axis_options,   \* Axis.options
    plot_options,   \* Plot2D.options
    pic_options,    \* TikzPicture.options
    histogram,      \* Histogram {options, hist_options, data}
    axis_log,       \* history: every option passed to Axis::option / add_option
    plot_log,       \* history: every option passed to Plot2D::option / add_option
    pic_log,        \* history: every option passed to TikzPicture::add_option
    hist_log,       \* history: every option passed to Histogram::option / add_option
    hist_hlog,      \* history: every option passed to Histogram::hist_option / add_hist_option
    opts_call,      \* the name of the last option method called
    document,       \* Document {preamble {pkgs, pgflibs, pgfcompat}, body}
    call,           \* the last call on the document: its name and its string argument
    ret,            \* the value returned by the last call on the document
    pc,             \* position inside Document::pdf: "idle" between calls
    engine,         \* the LatexEngine passed to the running or last Document::pdf
    next_dir,       \* number of temporary directories allocated so far
    dirs,           \* the temporary directories that exist
    tex,            \* the directories whose source file is fully written
    cur,            \* the directory of the LatexOutput being compiled, 0 for none
    held,           \* the directories of the LatexOutputs returned and not yet dropped
    proc,           \* the compiler process of the running or last Document::pdf
    exit_status,    \* its exit status, once it exited
    pdf_ret,        \* the value returned by the last Document::pdf
    fs,             \* the file system below the working directory
    fs_before,      \* history: the file system when LatexOutput::save was called
    save_call,      \* the last call of LatexOutput::save: its path and closure
    save_ret,       \* the value returned by the last LatexOutput::save
    asked           \* whether the last LatexOutput::save ran the closure

optsVars == <<axis_options, plot_options, pic_options, histogram,
              axis_log, plot_log, pic_log, hist_log, hist_hlog, opts_call>>

docVars == <<document, call, ret>>

outVars == <<pc, engine, next_dir, dirs, tex, cur, held, proc, exit_status,
             pdf_ret>>

saveVars == <<fs, fs_before, save_call, save_ret, asked>>

vars == <<axis_options, plot_options, pic_options, histogram,
          axis_log, plot_log, pic_log, hist_log, hist_hlog, opts_call,
          document, call, ret,
          pc, engine, next_dir, dirs, tex, cur, held, proc, exit_status, pdf_ret,
          fs, fs_before, save_call, save_ret, asked>>

---------------------------------------------------------------------------
(* Bounds *)

\* total number of option insertions in one behaviour
MaxInserts == 3

\* payloads of the numeric options, and the texts of the Custom options
OptionValues == {0, 5}

\* the variants of AxisOption, PlotOption, TikzPictureOption and
\* HistogramOption that the model draws its inputs from
AxisOptionKinds == {"Custom", "XMin", "XMax"}
PlotOptionKinds == {"Custom", "Type2D", "XError"}
TikzPictureOptionKinds == {"Custom"}
HistogramOptionKinds == {"Custom", "Bins", "DataMin"}

AxisOption == [kind : AxisOptionKinds, value : OptionValues]
PlotOption == [kind : PlotOptionKinds, value : OptionValues]
TikzPictureOption == [kind : TikzPictureOptionKinds, value : OptionValues]
HistogramOption == [kind : HistogramOptionKinds, value : OptionValues]

---------------------------------------------------------------------------
(* Vec and Iterator helpers *)

\* std::mem::discriminant: the variant of an enum value, payload ignored
discriminant(option) == option.kind

\* Vec::remove(index), index counted from 1; shifts the rest to the left
VecRemove(v, index) == SubSeq(v, 1, index - 1) \o SubSeq(v, index + 1, Len(v))

\* Iterator::position with the closure |idx| discriminant(idx) ==
\* discriminant(&option): the first index whose variant is that of option,
\* 0 for None
PositionSameKind(v, option) ==
    IF \E i \in DOMAIN v : discriminant(v[i]) = discriminant(option)
    THEN CHOOSE i \in DOMAIN v :
            /\ discriminant(v[i]) = discriminant(option)
            /\ \A j \in 1..(i - 1) : discriminant(v[j]) # discriminant(option)
    ELSE 0

\* Iterator::position with the closure |opt| discriminant(opt) ==
\* discriminant(opt), which compares each element with itself: the first
\* index of a non-empty vector, 0 (None) for the empty one
PositionSelfKind(v) ==
    IF \E i \in DOMAIN v : discriminant(v[i]) = discriminant(v[i])
    THEN CHOOSE i \in DOMAIN v :
            /\ discriminant(v[i]) = discriminant(v[i])
            /\ \A j \in 1..(i - 1) : discriminant(v[j]) # discriminant(v[j])
    ELSE 0

---------------------------------------------------------------------------
(* Option insertion, one operator per method of the source *)

\* a re-inserted kind is overwritten where it stands
Axis_option_InPlace(options, option) ==
    IF option.kind = "Custom"
    THEN Append(options, option)
    ELSE LET index == PositionSameKind(options, option)
         IN  IF index # 0
             THEN [options EXCEPT ![index] = option]
             ELSE Append(options, option)

Axis_option(options, option) ==
    IF option.kind = "Custom"
    THEN Append(options, option)
    ELSE LET index == PositionSameKind(options, option)
         IN  Append(IF index # 0 THEN VecRemove(options, index) ELSE options,
                    option)

\* the previous option of the kind is not removed
Axis_add_option_NoRemove(options, option) == Append(options, option)

Axis_add_option(options, option) ==
    IF option.kind = "Custom"
    THEN Append(options, option)
    ELSE LET index == PositionSameKind(options, option)
         IN  Append(IF index # 0 THEN VecRemove(options, index) ELSE options,
                    option)

\* Axis::set_x_min(min) is add_option(AxisOption::XMin(min))
Axis_set_x_min(options, min) ==
    Axis_add_option(options, [kind |-> "XMin", value |-> min])

Plot2D_option(options, option) ==
    IF option.kind = "Custom"
    THEN Append(options, option)
    ELSE LET index == PositionSameKind(options, option)
         IN  Append(IF index # 0 THEN VecRemove(options, index) ELSE options,
                    option)

Plot2D_add_option(options, key) ==
    IF key.kind = "Custom"
    THEN Append(options, key)
    ELSE LET index == PositionSameKind(options, key)
         IN  Append(IF index # 0 THEN VecRemove(options, index) ELSE options,
                    key)

\* an option already present is not pushed again
TikzPicture_add_option_Dedup(options, option) ==
    IF \E i \in DOMAIN options : options[i] = option
    THEN options
    ELSE Append(options, option)

\* the match has the single arm Custom(_) => (), then the push
TikzPicture_add_option(options, option) == Append(options, option)

\* Histogram::option and Histogram::add_option: the closure compares opt
\* with itself, and the index found is removed from self.options
Histogram_option(self, option) ==
    IF option.kind = "Custom"
    THEN [self EXCEPT !.options = Append(@, option)]
    ELSE LET index == PositionSelfKind(self.options)
         IN  [self EXCEPT !.options =
                 Append(IF index # 0 THEN VecRemove(@, index) ELSE @, option)]

Histogram_add_option(self, option) ==
    IF option.kind = "Custom"
    THEN [self EXCEPT !.options = Append(@, option)]
    ELSE LET index == PositionSelfKind(self.options)
         IN  [self EXCEPT !.options =
                 Append(IF index # 0 THEN VecRemove(@, index) ELSE @, option)]

\* Histogram::hist_option and Histogram::add_hist_option: the scan and the
\* removal are on self.options, the push is on self.hist_options
Histogram_hist_option(self, option) ==
    IF option.kind = "Custom"
    THEN [self EXCEPT !.hist_options = Append(@, option)]
    ELSE LET index == PositionSelfKind(self.options)
         IN  [self EXCEPT
                 !.options = IF index # 0 THEN VecRemove(@, index) ELSE @,
                 !.hist_options = Append(@, option)]

Histogram_add_hist_option(self, option) ==
    IF option.kind = "Custom"
    THEN [self EXCEPT !.hist_options = Append(@, option)]
    ELSE LET index == PositionSelfKind(self.options)
         IN  [self EXCEPT
                 !.options = IF index # 0 THEN VecRemove(@, index) ELSE @,
                 !.hist_options = Append(@, option)]

\* the setters and their chaining forms all go through add_hist_option
Histogram_set_bins(self, bins) ==
    Histogram_add_hist_option(self, [kind |-> "Bins", value |-> bins])

Histogram_bins(self, bins) ==
    Histogram_add_hist_option(self, [kind |-> "Bins", value |-> bins])

Histogram_set_data_min(self, min) ==
    Histogram_add_hist_option(self, [kind |-> "DataMin", value |-> min])

---------------------------------------------------------------------------
(* The option sequences as a state machine *)

Inserts == Len(axis_log) + Len(plot_log) + Len(pic_log)
           + Len(hist_log) + Len(hist_hlog)

\* Axis::new, Plot2D::new, TikzPicture::new, Histogram::new
OptsInit ==
    /\ axis_options = <<>>
    /\ plot_options = <<>>
    /\ pic_options = <<>>
    /\ histogram = [options |-> <<>>, hist_options |-> <<>>, data |-> <<>>]
    /\ axis_log = <<>>
    /\ plot_log = <<>>
    /\ pic_log = <<>>
    /\ hist_log = <<>>
    /\ hist_hlog = <<>>
    /\ opts_call = ""

AxisOptionCall ==
    \E option \in AxisOption :
        /\ Inserts < MaxInserts
        /\ axis_options' = Axis_option(axis_options, option)
        /\ axis_log' = Append(axis_log, option)
        /\ UNCHANGED <<plot_options, pic_options, histogram,
                       plot_log, pic_log, hist_log, hist_hlog>>
        /\ opts_call' = "Axis::option"
        /\ UNCHANGED <<docVars, outVars, saveVars>>

AxisAddOptionCall ==
    \E option \in AxisOption :
        /\ Inserts < MaxInserts
        /\ axis_options' = Axis_add_option(axis_options, option)
        /\ axis_log' = Append(axis_log, option)
        /\ UNCHANGED <<plot_options, pic_options, histogram,
                       plot_log, pic_log, hist_log, hist_hlog>>
        /\ opts_call' = "Axis::add_option"
        /\ UNCHANGED <<docVars, outVars, saveVars>>

AxisSetXMinCall ==
    \E min \in OptionValues :
        /\ Inserts < MaxInserts
        /\ axis_options' = Axis_set_x_min(axis_options, min)
        /\ axis_log' = Append(axis_log, [kind |-> "XMin", value |-> min])
        /\ UNCHANGED <<plot_options, pic_options, histogram,
                       plot_log, pic_log, hist_log, hist_hlog>>
        /\ opts_call' = "Axis::set_x_min"
        /\ UNCHANGED <<docVars, outVars, saveVars>>

Plot2DOptionCall ==
    \E option \in PlotOption :
        /\ Inserts < MaxInserts
        /\ plot_options' = Plot2D_option(plot_options, option)
        /\ plot_log' = Append(plot_log, option)
        /\ UNCHANGED <<axis_options, pic_options, histogram,
                       axis_log, pic_log, hist_log, hist_hlog>>
        /\ opts_call' = "Plot2D::option"
        /\ UNCHANGED <<docVars, outVars, saveVars>>

Plot2DAddOptionCall ==
    \E key \in PlotOption :
        /\ Inserts < MaxInserts
        /\ plot_options' = Plot2D_add_option(plot_options, key)
        /\ plot_log' = Append(plot_log, key)
        /\ UNCHANGED <<axis_options, pic_options, histogram,
                       axis_log, pic_log, hist_log, hist_hlog>>
        /\ opts_call' = "Plot2D::add_option"
        /\ UNCHANGED <<docVars, outVars, saveVars>>

TikzPictureAddOptionCall ==
    \E option \in TikzPictureOption :
        /\ Inserts < MaxInserts
        /\ pic_options' = TikzPicture_add_option(pic_options, option)
        /\ pic_log' = Append(pic_log, option)
        /\ UNCHANGED <<axis_options, plot_options, histogram,
                       axis_log, plot_log, hist_log, hist_hlog>>
        /\ opts_call' = "TikzPicture::add_option"
        /\ UNCHANGED <<docVars, outVars, saveVars>>

HistogramOptionCall ==
    \E option \in PlotOption :
        /\ Inserts < MaxInserts
        /\ histogram' = Histogram_option(histogram, option)
        /\ hist_log' = Append(hist_log, option)
        /\ UNCHANGED <<axis_options, plot_options, pic_options,
                       axis_log, plot_log, pic_log, hist_hlog>>
        /\ opts_call' = "Histogram::option"
        /\ UNCHANGED <<docVars, outVars, saveVars>>

HistogramAddOptionCall ==
    \E option \in PlotOption :
        /\ Inserts < MaxInserts
        /\ histogram' = Histogram_add_option(histogram, option)
        /\ hist_log' = Append(hist_log, option)
        /\ UNCHANGED <<axis_options, plot_options, pic_options,
                       axis_log, plot_log, pic_log, hist_hlog>>
        /\ opts_call' = "Histogram::add_option"
        /\ UNCHANGED <<docVars, outVars, saveVars>>

HistogramHistOptionCall ==
    \E option \in HistogramOption :
        /\ Inserts < MaxInserts
        /\ histogram' = Histogram_hist_option(histogram, option)
        /\ hist_hlog' = Append(hist_hlog, option)
        /\ UNCHANGED <<axis_options, plot_options, pic_options,
                       axis_log, plot_log, pic_log, hist_log>>
        /\ opts_call' = "Histogram::hist_option"
        /\ UNCHANGED <<docVars, outVars, saveVars>>

HistogramAddHistOptionCall ==
    \E option \in HistogramOption :
        /\ Inserts < MaxInserts
        /\ histogram' = Histogram_add_hist_option(histogram, option)
        /\ hist_hlog' = Append(hist_hlog, option)
        /\ UNCHANGED <<axis_options, plot_options, pic_options,
                       axis_log, plot_log, pic_log, hist_log>>
        /\ opts_call' = "Histogram::add_hist_option"
        /\ UNCHANGED <<docVars, outVars, saveVars>>

HistogramSetBinsCall ==
    \E bins \in OptionValues :
        /\ Inserts < MaxInserts
        /\ histogram' = Histogram_set_bins(histogram, bins)
        /\ hist_hlog' = Append(hist_hlog, [kind |-> "Bins", value |-> bins])
        /\ UNCHANGED <<axis_options, plot_options, pic_options,
                       axis_log, plot_log, pic_log, hist_log>>
        /\ opts_call' = "Histogram::set_bins"
        /\ UNCHANGED <<docVars, outVars, saveVars>>

HistogramBinsCall ==
    \E bins \in OptionValues :
        /\ Inserts < MaxInserts
        /\ histogram' = Histogram_bins(histogram, bins)
        /\ hist_hlog' = Append(hist_hlog, [kind |-> "Bins", value |-> bins])
        /\ UNCHANGED <<axis_options, plot_options, pic_options,
                       axis_log, plot_log, pic_log, hist_log>>
        /\ opts_call' = "Histogram::bins"
        /\ UNCHANGED <<docVars, outVars, saveVars>>

HistogramSetDataMinCall ==
    \E min \in OptionValues :
        /\ Inserts < MaxInserts
        /\ histogram' = Histogram_set_data_min(histogram, min)
        /\ hist_hlog' = Append(hist_hlog, [kind |-> "DataMin", value |-> min])
        /\ UNCHANGED <<axis_options, plot_options, pic_options,
                       axis_log, plot_log, pic_log, hist_log>>
        /\ opts_call' = "Histogram::set_data_min"
        /\ UNCHANGED <<docVars, outVars, saveVars>>

OptsNext ==
    \/ AxisOptionCall
    \/ AxisAddOptionCall
    \/ AxisSetXMinCall
    \/ Plot2DOptionCall
    \/ Plot2DAddOptionCall
    \/ TikzPictureAddOptionCall
    \/ HistogramOptionCall
    \/ HistogramAddOptionCall
    \/ HistogramHistOptionCall
    \/ HistogramAddHistOptionCall
    \/ HistogramSetBinsCall
    \/ HistogramBinsCall
    \/ HistogramSetDataMinCall

---------------------------------------------------------------------------
(* Properties of the option sequences *)

IsCustom(option) == option.kind = "Custom"

Last(v) == v[Len(v)]

Front(v) == SubSeq(v, 1, Len(v) - 1)

CountKind(options, k) ==
    Cardinality({i \in DOMAIN options : options[i].kind = k})

Inserted(log, k) == \E i \in DOMAIN log : log[i].kind = k

\* the most recent insertion of kind k recorded in log
LastOfKind(log, k) ==
    log[CHOOSE i \in DOMAIN log :
            /\ log[i].kind = k
            /\ \A j \in (i + 1)..Len(log) : log[j].kind # k]

OneOptionPerKind(options, log, kinds) ==
    \A k \in kinds \ {"Custom"} :
        Inserted(log, k) =>
            /\ CountKind(options, k) = 1
            /\ \E i \in DOMAIN options : options[i] = LastOfKind(log, k)

\* C1: on an Axis and on a Plot2D, every non-Custom kind that was inserted
\* at least once occurs exactly once in the options, with the value of its
\* most recent insertion.
C1_OneOptionPerKind ==
    /\ OneOptionPerKind(axis_options, axis_log, AxisOptionKinds)
    /\ OneOptionPerKind(plot_options, plot_log, PlotOptionKinds)

\* XMin(0) then XMin(5) on the axis: one xmin, with value 5
C1_Witness ==
    /\ axis_log = <<[kind |-> "XMin", value |-> 0],
                    [kind |-> "XMin", value |-> 5]>>
    /\ axis_options = <<[kind |-> "XMin", value |-> 5]>>

\* C2: the Custom options of an Axis, a Plot2D and a TikzPicture are exactly
\* the Custom insertions performed, as many and in the same order, also when
\* their texts are equal.
C2_CustomNeverCollide ==
    /\ SelectSeq(axis_options, IsCustom) = SelectSeq(axis_log, IsCustom)
    /\ SelectSeq(plot_options, IsCustom) = SelectSeq(plot_log, IsCustom)
    /\ SelectSeq(pic_options, IsCustom) = SelectSeq(pic_log, IsCustom)

\* the same text inserted twice in the picture and once in the axis
C2_Witness ==
    /\ pic_log = <<[kind |-> "Custom", value |-> 0],
                   [kind |-> "Custom", value |-> 0]>>
    /\ Len(pic_options) = 2
    /\ axis_log = <<[kind |-> "Custom", value |-> 0]>>

\* the option just inserted is the last one, and the options of the other
\* kinds and the Custom ones are those of before, in the order of before
MovedToEnd(old, new, option) ==
    /\ new # <<>>
    /\ Last(new) = option
    /\ LET Others(o) == o.kind = "Custom" \/ o.kind # option.kind
       IN  SelectSeq(Front(new), Others) = SelectSeq(old, Others)

\* C3: an insertion on an Axis or a Plot2D puts the option at the end and
\* neither removes nor reorders the options of the other kinds, so a kind
\* inserted again moves to the end.
C3_MostRecentWriteOrder ==
    [][/\ axis_log' # axis_log =>
            MovedToEnd(axis_options, axis_options', Last(axis_log'))
       /\ plot_log' # plot_log =>
            MovedToEnd(plot_options, plot_options', Last(plot_log'))]_vars

\* xmin, xmax, then xmin again through Axis::option: xmin is now behind xmax
C3_Witness ==
    /\ opts_call = "Axis::option"
    /\ Len(axis_log) = 3
    /\ axis_log[1].kind = "XMin"
    /\ axis_log[2].kind = "XMax"
    /\ axis_log[3].kind = "XMin"
    /\ axis_options = <<axis_log[2], axis_log[3]>>

\* C4: Histogram::option / add_option removes an earlier plot option only
\* if it has the kind of the new one; the Custom ones and those of the other
\* kinds are all still there afterwards.
C4_HistogramOptionKeepsOtherKinds ==
    [][hist_log' # hist_log =>
          LET option == Last(hist_log')
          IN  \A i \in DOMAIN histogram.options :
                  (histogram.options[i].kind = "Custom"
                   \/ histogram.options[i].kind # option.kind) =>
                      \E j \in DOMAIN histogram'.options :
                          histogram'.options[j] = histogram.options[i]]_vars

\* C5: the histogram-specific options hold at most one option of each
\* non-Custom kind, with the value of its most recent insertion.
C5_HistOptionsOnePerKind ==
    \A k \in HistogramOptionKinds \ {"Custom"} :
        /\ CountKind(histogram.hist_options, k) <= 1
        /\ Inserted(hist_hlog, k) =>
              \E i \in DOMAIN histogram.hist_options :
                  histogram.hist_options[i] = LastOfKind(hist_hlog, k)

\* C29: a call that inserts a histogram option (hist_option,
\* add_hist_option, set_bins, bins, set_data_min) leaves the plot options and
\* the data of the histogram as they were.
C29_HistOptionKeepsPlotOptions ==
    [][hist_hlog' # hist_hlog =>
          /\ histogram'.options = histogram.options
          /\ histogram'.data = histogram.data]_vars

---------------------------------------------------------------------------
(* Rendered text.  A text is the sequence of its lines (the string split   *)
(* at every "\n", so a text that ends with a newline has an empty last     *)
(* line); a line is the sequence of the pieces written to it.              *)

\* a string without a newline
Str(pieces) == <<pieces>>

\* the empty string
EmptyText == <<<<>>>>

\* "\n"
Newline == <<<<>>, <<>>>>

\* what two successive write! calls leave in the formatter
Cat(a, b) ==
    SubSeq(a, 1, Len(a) - 1) \o <<a[Len(a)] \o b[1]>> \o SubSeq(b, 2, Len(b))

\* writeln!(f, "{x}")
Writeln(x) == Cat(x, Newline)

RECURSIVE CatAll(_)
CatAll(texts) ==
    IF texts = <<>> THEN EmptyText ELSE Cat(texts[1], CatAll(Tail(texts)))

\* [a, b, ...].join("\n")
JoinLines(texts) ==
    IF texts = <<>>
    THEN EmptyText
    ELSE CatAll([i \in 1..Len(texts) |->
                    IF i = 1 THEN texts[i] ELSE Cat(Newline, texts[i])])

\* [a, b, ...].join(", ") of strings
RECURSIVE JoinComma(_)
JoinComma(strings) ==
    IF strings = <<>> THEN <<>>
    ELSE IF Len(strings) = 1 THEN <<strings[1]>>
    ELSE <<strings[1], ", ">> \o JoinComma(Tail(strings))

---------------------------------------------------------------------------
(* Preamble: compatibility layer, libraries, packages *)

VERSIONS == <<"1.18", "1.17", "1.16", "1.15", "1.14", "1.13", "1.12", "1.11",
              "1.10", "1.9", "1.8", "1.7", "1.6", "1.5.1", "1.5", "1.4",
              "1.3", "pre1.3", "default">>

\* slice::contains
Contains(v, x) == \E i \in DOMAIN v : v[i] = x

Ok(value) == [tag |-> "Ok", kind |-> "", value |-> value]
Err(kind, value) == [tag |-> "Err", kind |-> kind, value |-> value]
NoRet == [tag |-> "None", kind |-> "", value |-> ""]

Called(op, arg) == [op |-> op, arg |-> arg]
NoCall == Called("", "")

\* the version is not looked up in VERSIONS
PgfPlotsCompat_new_Unchecked(version) == Ok(version)

\* PgfPlotsCompat::new and TryFrom<&str>: Ok(PgfPlotsCompat) or
\* Err(BadCompatVersion(version))
PgfPlotsCompat_new(version) ==
    IF ~Contains(VERSIONS, version)
    THEN Err("BadCompatVersion", version)
    ELSE Ok(version)

PgfPlotsCompat_default == [version |-> "default"]

PgfPlotsCompat_fmt(self) == Str(<<"\\pgfplotsset{compat=", self.version, "}">>)

PgfPlotsLib_name(self) ==
    CASE self = "Clickable" -> "clickable"
      [] self = "DatePlot" -> "dateplot"
      [] self = "External" -> "external"
      [] self = "FillBetween" -> "fillbetween"
      [] self = "Statistics" -> "statistics"
      [] self = "Units" -> "units"

PgfPlotsLib_fmt(self) ==
    Str(<<"\\usepgfplotslibrary{", PgfPlotsLib_name(self), "}">>)

\* the options are written before the name
Package_fmt_OptionsFirst(self) ==
    Cat(Cat(Str(<<"\\usepackage">>),
            IF self.options # <<>>
            THEN Str(<<"[">> \o JoinComma(self.options) \o <<"]">>)
            ELSE EmptyText),
        Str(<<"{", self.name, "}">>))

\* Display for Package
Package_fmt(self) ==
    Cat(Str(<<"\\usepackage{", self.name, "}">>),
        IF self.options # <<>>
        THEN Str(<<"[">> \o JoinComma(self.options) \o <<"]">>)
        ELSE EmptyText)

Preamble_new ==
    [pkgs |-> <<>>, pgflibs |-> <<>>, pgfcompat |-> PgfPlotsCompat_default]

\* Preamble::with_pgfcompat_version: Ok(Preamble) or the error of try_from
Preamble_with_pgfcompat_version(version) ==
    LET r == PgfPlotsCompat_new(version)
    IN  IF r.tag = "Err"
        THEN r
        ELSE Ok([pkgs |-> <<>>, pgflibs |-> <<>>,
                 pgfcompat |-> [version |-> r.value]])

Preamble_set_pgfcompat(self, pgfcompat) == [self EXCEPT !.pgfcompat = pgfcompat]

\* a rejected version leaves the default one behind
Preamble_set_pgfcompat_version_Default(self, version) ==
    LET r == PgfPlotsCompat_new(version)
    IN  IF r.tag = "Err"
        THEN [self |-> [self EXCEPT !.pgfcompat = PgfPlotsCompat_default],
              ret |-> r]
        ELSE [self |-> [self EXCEPT !.pgfcompat = [version |-> r.value]],
              ret |-> Ok("")]

\* the assignment happens only after try_from returned Ok
Preamble_set_pgfcompat_version(self, version) ==
    LET r == PgfPlotsCompat_new(version)
    IN  IF r.tag = "Err"
        THEN [self |-> self, ret |-> r]
        ELSE [self |-> [self EXCEPT !.pgfcompat = [version |-> r.value]],
              ret |-> Ok("")]

Preamble_add_pgflib(self, lib) == [self EXCEPT !.pgflibs = Append(@, lib)]

Preamble_add_pgflibs(self, libs) == [self EXCEPT !.pgflibs = @ \o libs]

Preamble_add_pkg(self, pkg) == [self EXCEPT !.pkgs = Append(@, pkg)]

Preamble_add_pkgs(self, pkgs) == [self EXCEPT !.pkgs = @ \o pkgs]

Preamble_fmt(self) ==
    Cat(Writeln(JoinLines(<<Str(<<"\\documentclass{standalone}">>),
                            Str(<<"\\usepackage{pgfplots}">>),
                            PgfPlotsCompat_fmt(self.pgfcompat)>>)),
        Cat(CatAll([i \in 1..Len(self.pgflibs) |->
                       Writeln(PgfPlotsLib_fmt(self.pgflibs[i]))]),
            CatAll([i \in 1..Len(self.pkgs) |->
                       Writeln(Package_fmt(self.pkgs[i]))])))

---------------------------------------------------------------------------
(* Required libraries of the tree *)

Plot_required_lib(self) ==
    CASE self.kind = "Draw" -> <<>>
      [] self.kind = "Plot2D" -> <<>>
      [] self.kind = "Histogram" -> <<"Statistics">>

\* Iterator::filter_map(..).collect() and flat_map(..).collect(): the
\* results in order, nothing dropped
RECURSIVE Flatten(_)
Flatten(vs) == IF vs = <<>> THEN <<>> ELSE vs[1] \o Flatten(Tail(vs))

Axis_required_libs(self) ==
    Flatten([i \in 1..Len(self.plots) |-> Plot_required_lib(self.plots[i])])

TikzInnerEnv_required_libs(self) == Axis_required_libs(self)

TikzPicture_required_libs(self) ==
    Flatten([i \in 1..Len(self.inner_env) |->
                TikzInnerEnv_required_libs(self.inner_env[i])])

---------------------------------------------------------------------------
(* Document *)

Document_new == [preamble |-> Preamble_new, body |-> <<>>]

\* From<Preamble> for Document
Document_from_preamble(preamble) == [preamble |-> preamble, body |-> <<>>]

Document_add_pgflibs(self, libs) ==
    [self EXCEPT !.preamble = Preamble_add_pgflibs(@, libs)]

Document_add_pgflib(self, lib) ==
    [self EXCEPT !.preamble = Preamble_add_pgflib(@, lib)]

Document_add_pkg(self, pkg) ==
    [self EXCEPT !.preamble = Preamble_add_pkg(@, pkg)]

\* the picture is pushed without its libraries
Document_add_picture_NoLibs(self, tikzpicture) ==
    [self EXCEPT !.body = Append(@, tikzpicture)]

Document_add_picture(self, tikzpicture) ==
    LET withLibs == Document_add_pgflibs(self,
                                         TikzPicture_required_libs(tikzpicture))
    IN  [withLibs EXCEPT !.body = Append(@, tikzpicture)]

Document_picture(self, tikzpicture) ==
    LET withLibs == Document_add_pgflibs(self,
                                         TikzPicture_required_libs(tikzpicture))
    IN  [withLibs EXCEPT !.body = Append(@, tikzpicture)]

Document_set_pgfcompat(self, pgfcompat) ==
    [self EXCEPT !.preamble = Preamble_set_pgfcompat(@, pgfcompat)]

Document_set_pgfcompat_version(self, version) ==
    LET r == Preamble_set_pgfcompat_version(self.preamble, version)
    IN  [self |-> [self EXCEPT !.preamble = r.self], ret |-> r.ret]

---------------------------------------------------------------------------
(* Display of the tree and Document::standalone_string *)

\* TikzPictureOption::Custom(key) is written verbatim; the text of a Custom
\* option is its number
TikzPictureOption_fmt(self) == Str(<<ToString(self.value)>>)

AxisOption_fmt(self) ==
    CASE self.kind = "Custom" -> Str(<<ToString(self.value)>>)
      [] self.kind = "XMin" -> Str(<<"xmin={", ToString(self.value), "}">>)
      [] self.kind = "XMax" -> Str(<<"xmax={", ToString(self.value), "}">>)

\* the block written after \begin{...} when there are options: "[", one
\* line "\t{key}," per option, and "]"
OptionBlock(keys) ==
    IF keys # <<>>
    THEN CatAll(<<Writeln(Str(<<"[">>)),
                  CatAll([i \in 1..Len(keys) |->
                             Writeln(CatAll(<<Str(<<"\t">>), keys[i],
                                              Str(<<",">>)>>))]),
                  Str(<<"]">>)>>)
    ELSE EmptyText

\* Display for PlotOption.  The text of a Custom option is its number; the
\* payload of the other options is a variant of an enum, numbered: 0 is
\* Type2D::SharpPlot, ErrorCharacter::Absolute, ErrorDirection::None, and any
\* other number Type2D::OnlyMarks, ErrorCharacter::Relative,
\* ErrorDirection::Both.
PlotOption_fmt(self) ==
    LET Type2D_fmt == IF self.value = 0 THEN "sharp plot" ELSE "only marks"
        ErrorCharacter_fmt ==
            IF self.value = 0 THEN "explicit" ELSE "explicit relative"
        ErrorDirection_fmt == IF self.value = 0 THEN "none" ELSE "both"
    IN  CASE self.kind = "Custom" -> Str(<<ToString(self.value)>>)
          [] self.kind = "Type2D" -> Str(<<Type2D_fmt>>)
          [] self.kind = "XError" -> Str(<<"error bars/x ", ErrorCharacter_fmt>>)
          [] self.kind = "XErrorDirection" ->
                Str(<<"error bars/x dir=", ErrorDirection_fmt>>)
          [] self.kind = "YError" -> Str(<<"error bars/y ", ErrorCharacter_fmt>>)
          [] self.kind = "YErrorDirection" ->
                Str(<<"error bars/y dir=", ErrorDirection_fmt>>)

\* Display for HistogramOption
HistogramOption_fmt(self) ==
    CASE self.kind = "Custom" -> Str(<<ToString(self.value)>>)
      [] self.kind = "DataMin" -> Str(<<"data min={", ToString(self.value), "}">>)
      [] self.kind = "Bins" -> Str(<<"bins=", ToString(self.value)>>)

\* Coordinate2D::from((x, y)) and a coordinate with error magnitudes; an
\* Option<f64> is the sequence of its values, <<>> for None
Coordinate2D(x, y, error_x, error_y) ==
    [x |-> x, y |-> y, error_x |-> error_x, error_y |-> error_y]

\* the error part is written only when both magnitudes are there
Coordinate2D_fmt_Both(self) ==
    Cat(Str(<<"(", ToString(self.x), ",", ToString(self.y), ")">>),
        IF self.error_x # <<>> /\ self.error_y # <<>>
        THEN Str(<<"\t+- (", ToString(self.error_x[1]), ",",
                   ToString(self.error_y[1]), ")">>)
        ELSE EmptyText)

\* Display for Coordinate2D
Coordinate2D_fmt(self) ==
    Cat(Str(<<"(", ToString(self.x), ",", ToString(self.y), ")">>),
        IF self.error_x # <<>> \/ self.error_y # <<>>
        THEN LET error_x == IF self.error_x = <<>> THEN 0 ELSE self.error_x[1]
                 error_y == IF self.error_y = <<>> THEN 0 ELSE self.error_y[1]
             IN  Str(<<"\t+- (", ToString(error_x), ",", ToString(error_y), ")">>)
        ELSE EmptyText)

\* the coordinates are written from the last to the first
Plot2D_fmt_Reversed(self) ==
    CatAll(<<Str(<<"\t\\addplot[">>),
             IF self.options # <<>>
             THEN CatAll(<<Newline,
                           CatAll([i \in 1..Len(self.options) |->
                                      Writeln(CatAll(<<Str(<<"\t\t">>),
                                                       PlotOption_fmt(self.options[i]),
                                                       Str(<<",">>)>>))]),
                           Str(<<"\t">>)>>)
             ELSE EmptyText,
             Writeln(Str(<<"] coordinates {">>)),
             CatAll([i \in 1..Len(self.coordinates) |->
                        Writeln(Cat(Str(<<"\t\t">>),
                                    Coordinate2D_fmt(
                                        self.coordinates[Len(self.coordinates) + 1 - i])))]),
             Str(<<"\t};">>)>>)

\* Display for Plot2D
Plot2D_fmt(self) ==
    CatAll(<<Str(<<"\t\\addplot[">>),
             IF self.options # <<>>
             THEN CatAll(<<Newline,
                           CatAll([i \in 1..Len(self.options) |->
                                      Writeln(CatAll(<<Str(<<"\t\t">>),
                                                       PlotOption_fmt(self.options[i]),
                                                       Str(<<",">>)>>))]),
                           Str(<<"\t">>)>>)
             ELSE EmptyText,
             Writeln(Str(<<"] coordinates {">>)),
             CatAll([i \in 1..Len(self.coordinates) |->
                        Writeln(Cat(Str(<<"\t\t">>),
                                    Coordinate2D_fmt(self.coordinates[i])))]),
             Str(<<"\t};">>)>>)

\* Display for Histogram
Histogram_fmt(self) ==
    CatAll(<<Str(<<"\t\\addplot+ [">>),
             IF self.hist_options # <<>>
             THEN CatAll(<<Writeln(Cat(Newline, Str(<<"\t\thist={">>))),
                           CatAll([i \in 1..Len(self.hist_options) |->
                                      Writeln(CatAll(<<Str(<<"\t\t\t">>),
                                                       HistogramOption_fmt(self.hist_options[i]),
                                                       Str(<<",">>)>>))]),
                           Str(<<"\t\t}">>)>>)
             ELSE Cat(Newline, Str(<<"\t\thist,">>)),
             Newline,
             CatAll([i \in 1..Len(self.options) |->
                        Writeln(CatAll(<<Str(<<"\t\t">>),
                                         PlotOption_fmt(self.options[i]),
                                         Str(<<",">>)>>))]),
             Writeln(Cat(Str(<<"\t] table [row sep=\\\\, y index=0] {">>),
                         Cat(Newline, Str(<<"\t\tdata \\\\">>)))),
             CatAll([i \in 1..Len(self.data) |->
                        Writeln(Str(<<"\t\t", ToString(self.data[i]), " \\\\">>))]),
             Str(<<"\t};">>)>>)

\* Display for Plot
Plot_fmt(self) ==
    CASE self.kind = "Draw" -> Str(<<"\\draw ", self.draw, ";">>)
      [] self.kind = "Plot2D" -> Plot2D_fmt(self)
      [] self.kind = "Histogram" -> Histogram_fmt(self)

\* the attribute block is written also when there is no option
Axis_fmt_Brackets(self) ==
    CatAll(<<Str(<<"\\begin{axis}">>),
             CatAll(<<Writeln(Str(<<"[">>)),
                      CatAll([i \in 1..Len(self.options) |->
                                 Writeln(CatAll(<<Str(<<"\t">>),
                                                  AxisOption_fmt(self.options[i]),
                                                  Str(<<",">>)>>))]),
                      Str(<<"]">>)>>),
             Newline,
             CatAll([i \in 1..Len(self.plots) |->
                        Writeln(Plot_fmt(self.plots[i]))]),
             Str(<<"\\end{axis}">>)>>)

\* Display for Axis
Axis_fmt(self) ==
    CatAll(<<Str(<<"\\begin{axis}">>),
             OptionBlock([i \in 1..Len(self.options) |->
                             AxisOption_fmt(self.options[i])]),
             Newline,
             CatAll([i \in 1..Len(self.plots) |->
                        Writeln(Plot_fmt(self.plots[i]))]),
             Str(<<"\\end{axis}">>)>>)

\* Display for TikzInnerEnv, whose only variant is Axis
TikzInnerEnv_fmt(self) == Axis_fmt(self)

\* Display for TikzPicture
TikzPicture_fmt(self) ==
    CatAll(<<Str(<<"\\begin{tikzpicture}">>),
             OptionBlock([i \in 1..Len(self.options) |->
                             TikzPictureOption_fmt(self.options[i])]),
             Newline,
             CatAll([i \in 1..Len(self.inner_env) |->
                        Writeln(TikzInnerEnv_fmt(self.inner_env[i]))]),
             Str(<<"\\end{tikzpicture}">>)>>)

\* Document::standalone_string
Document_standalone_string(self) ==
    JoinLines(<<Preamble_fmt(self.preamble),
                Str(<<"\\begin{document}">>),
                JoinLines([i \in 1..Len(self.body) |->
                              TikzPicture_fmt(self.body[i])]),
                Str(<<"\\end{document}">>)>>)

---------------------------------------------------------------------------
(* Bounds and inputs of the document *)

\* plots in the pictures of one document, together
MaxPlots == 2
\* axis environments in the pictures of one document, together
MaxAxes == 2
\* pictures in the body of the document
MaxPictures == 2
\* libraries and packages added by hand to one preamble, together
MaxLibs == 3

SeqsUpTo(S, n) == UNION {[1..k -> S] : k \in 0..n}

\* TikzPicture::new() and Axis::new()
EmptyPicture == [options |-> <<>>, inner_env |-> <<>>]
EmptyAxis == [options |-> <<>>, plots |-> <<>>]

PlotKinds == {"Draw", "Plot2D", "Histogram"}
\* Plot::Draw of the empty string, Plot2D::new() and Histogram::new()
Plot_new(kind) ==
    CASE kind = "Draw" -> [kind |-> kind, draw |-> ""]
      [] kind = "Plot2D" -> [kind |-> kind, options |-> <<>>, coordinates |-> <<>>]
      [] kind = "Histogram" ->
            [kind |-> kind, options |-> <<>>, hist_options |-> <<>>, data |-> <<>>]
Plots == {Plot_new(kind) : kind \in PlotKinds}
Axes == {[options |-> <<>>, plots |-> ps] : ps \in SeqsUpTo(Plots, MaxPlots)}

RECURSIVE SumLen(_)
SumLen(envs) ==
    IF envs = <<>> THEN 0 ELSE Len(envs[1].plots) + SumLen(Tail(envs))

\* the plots of the pictures of a body, counted
RECURSIVE TotalPlots(_)
TotalPlots(body) ==
    IF body = <<>> THEN 0
    ELSE SumLen(body[1].inner_env) + TotalPlots(Tail(body))

\* the axis environments of the pictures of a body, counted
RECURSIVE TotalAxes(_)
TotalAxes(body) ==
    IF body = <<>> THEN 0 ELSE Len(body[1].inner_env) + TotalAxes(Tail(body))

Pictures ==
    {[options |-> <<>>, inner_env |-> es] :
        es \in {e \in SeqsUpTo(Axes, MaxAxes) : SumLen(e) <= MaxPlots}}

\* the pictures that fit into a document that has room for so many axis
\* environments and plots
PicturesWithin ==
    [axes \in 0..MaxAxes, plots \in 0..MaxPlots |->
        {tikzpicture \in Pictures :
            /\ Len(tikzpicture.inner_env) <= axes
            /\ SumLen(tikzpicture.inner_env) <= plots}]

LibInputs == {"Statistics", "Units"}
PackageInputs == {[name |-> "babel", options |-> <<"italian">>],
                  [name |-> "babel", options |-> <<"italian", "english">>],
                  [name |-> "braket", options |-> <<>>]}
VersionInputs == {VERSIONS[i] : i \in DOMAIN VERSIONS}
                 \cup {"3.0", "1.19", "1.2", "Default", ""}

---------------------------------------------------------------------------
(* The document as a state machine *)

DocInit ==
    /\ document = Document_new
    /\ call = NoCall
    /\ ret = NoRet

DocumentAddPictureCall ==
    /\ Len(document.body) < MaxPictures
    /\ \E tikzpicture \in PicturesWithin[MaxAxes - TotalAxes(document.body),
                                         MaxPlots - TotalPlots(document.body)] :
           /\ document' = Document_add_picture(document, tikzpicture)
           /\ call' = Called("add_picture", "")
           /\ ret' = NoRet
           /\ UNCHANGED <<optsVars, outVars, saveVars>>

DocumentPictureCall ==
    /\ Len(document.body) < MaxPictures
    /\ \E tikzpicture \in PicturesWithin[MaxAxes - TotalAxes(document.body),
                                         MaxPlots - TotalPlots(document.body)] :
           /\ document' = Document_picture(document, tikzpicture)
           /\ call' = Called("picture", "")
           /\ ret' = NoRet
           /\ UNCHANGED <<optsVars, outVars, saveVars>>

DocumentAddPgflibCall ==
    \E lib \in LibInputs :
        /\ Len(document.preamble.pgflibs) + Len(document.preamble.pkgs) < MaxLibs
        /\ document' = Document_add_pgflib(document, lib)
        /\ call' = Called("add_pgflib", "")
        /\ ret' = NoRet
        /\ UNCHANGED <<optsVars, outVars, saveVars>>

DocumentAddPkgCall ==
    \E pkg \in PackageInputs :
        /\ Len(document.preamble.pgflibs) + Len(document.preamble.pkgs) < MaxLibs
        /\ document' = Document_add_pkg(document, pkg)
        /\ call' = Called("add_pkg", "")
        /\ ret' = NoRet
        /\ UNCHANGED <<optsVars, outVars, saveVars>>

\* Document::set_pgfcompat takes a PgfPlotsCompat, which outside the module
\* is only obtained from Default or from a successful try_from
DocumentSetPgfcompatCall ==
    \E version \in VersionInputs :
        /\ PgfPlotsCompat_new(version).tag = "Ok"
        /\ document' = Document_set_pgfcompat(
                           document, [version |-> PgfPlotsCompat_new(version).value])
        /\ call' = Called("set_pgfcompat", "")
        /\ ret' = NoRet
        /\ UNCHANGED <<optsVars, outVars, saveVars>>

DocumentSetPgfcompatVersionCall ==
    \E version \in VersionInputs :
        LET r == Document_set_pgfcompat_version(document, version)
        IN  /\ document' = r.self
            /\ call' = Called("set_pgfcompat_version", version)
            /\ ret' = r.ret
            /\ UNCHANGED <<optsVars, outVars, saveVars>>

\* Document::from(Preamble::with_pgfcompat_version(version)?): a new document
\* replaces the old one if the preamble could be built
DocumentFromPreambleWithVersionCall ==
    \E version \in VersionInputs :
        LET r == Preamble_with_pgfcompat_version(version)
        IN  /\ document' = IF r.tag = "Ok"
                           THEN Document_from_preamble(r.value)
                           ELSE document
            /\ call' = Called("with_pgfcompat_version", version)
            /\ ret' = IF r.tag = "Ok" THEN Ok("") ELSE r
            /\ UNCHANGED <<optsVars, outVars, saveVars>>

\* only pictures are added
PicturesNext ==
    \/ DocumentAddPictureCall
    \/ DocumentPictureCall

\* pictures are added, and libraries by hand
LibsNext ==
    \/ DocumentAddPictureCall
    \/ DocumentPictureCall
    \/ DocumentAddPgflibCall

\* the preamble is edited, the body stays empty
CompatNext ==
    \/ DocumentSetPgfcompatVersionCall
    \/ DocumentFromPreambleWithVersionCall
    \/ DocumentSetPgfcompatCall
    \/ DocumentAddPgflibCall
    \/ DocumentAddPkgCall

---------------------------------------------------------------------------
(* Documents with options, coordinates and packages, and their text *)

\* children of the node of a document that has several
MaxChildren == 2

\* (0,0) and (1,1), and (1,0) with an error magnitude in x
CoordinateInputs == {Coordinate2D(0, 0, <<>>, <<>>),
                     Coordinate2D(1, 1, <<>>, <<>>),
                     Coordinate2D(1, 0, <<5>>, <<>>)}

\* self.add_picture(p) for every p of pictures, in order
RECURSIVE Document_add_pictures(_, _)
Document_add_pictures(self, pictures) ==
    IF pictures = <<>> THEN self
    ELSE Document_add_pictures(Document_add_picture(self, pictures[1]),
                               Tail(pictures))

\* The documents that are rendered: a new document to which packages and
\* then pictures were added.  One level of the tree at a time holds up to
\* MaxChildren children: the packages, the pictures, the axes of the one
\* picture, the plots of its one axis, the coordinates of its one plot.
Documents ==
    LET Plot2DOf(options, coordinates) ==
            [kind |-> "Plot2D", options |-> options, coordinates |-> coordinates]
        AxisOf(options, plots) == [options |-> options, plots |-> plots]
        PictureOf(options, envs) == [options |-> options, inner_env |-> envs]
        DocumentOf(pkgs, pictures) ==
            Document_add_pictures(
                [Document_new EXCEPT !.preamble = Preamble_add_pkgs(@, pkgs)],
                pictures)
        XDir == [kind |-> "XErrorDirection", value |-> 5]
        SomePlots == Plots \cup {Plot2DOf(<<>>, <<Coordinate2D(0, 0, <<>>, <<>>)>>)}
        SomeAxes == {EmptyAxis,
                     AxisOf(<<>>, <<Plot_new("Histogram")>>),
                     AxisOf(<<[kind |-> "XMin", value |-> 0]>>, <<Plot_new("Draw")>>)}
        SomePictures == {EmptyPicture,
                         PictureOf(<<>>, <<EmptyAxis>>),
                         PictureOf(<<[kind |-> "Custom", value |-> 5]>>, <<>>)}
    IN  {DocumentOf(pkgs, <<PictureOf(<<>>, <<AxisOf(<<>>, <<Plot_new("Histogram")>>)>>)>>) :
            pkgs \in SeqsUpTo(PackageInputs, MaxChildren)}
        \cup {DocumentOf(<<>>, pictures) :
                pictures \in SeqsUpTo(SomePictures, MaxChildren)}
        \cup {DocumentOf(<<>>, <<PictureOf(<<>>, envs)>>) :
                envs \in SeqsUpTo(SomeAxes, MaxChildren)}
        \cup {DocumentOf(<<>>, <<PictureOf(<<>>, <<AxisOf(<<>>, plots)>>)>>) :
                plots \in SeqsUpTo(SomePlots, MaxChildren)}
        \cup {DocumentOf(<<>>, <<PictureOf(<<>>, <<AxisOf(<<>>,
                    <<Plot2DOf(options, coordinates)>>)>>)>>) :
                options \in {<<>>, <<XDir>>},
                coordinates \in SeqsUpTo(CoordinateInputs, MaxChildren)}

\* Document::standalone_string; the text is the value returned
DocumentStandaloneStringCall ==
    /\ call' = Called("standalone_string", "")
    /\ ret' = Ok(Document_standalone_string(document))
    /\ UNCHANGED <<document, optsVars, outVars, saveVars>>

\* a document is rendered, and its compatibility version assigned
RenderNext ==
    \/ DocumentStandaloneStringCall
    \/ DocumentSetPgfcompatVersionCall

---------------------------------------------------------------------------
(* Properties of the document *)

\* the plots of all the pictures of the body
BodyPlots ==
    {document.body[i].inner_env[j].plots[k] :
        <<i, j, k>> \in
            {t \in (DOMAIN document.body) \X (1..MaxAxes) \X (1..MaxPlots) :
                /\ t[2] \in DOMAIN document.body[t[1]].inner_env
                /\ t[3] \in DOMAIN document.body[t[1]].inner_env[t[2]].plots}}

\* the libraries required by some plot of the body
BodyLibs ==
    {lib \in LibInputs :
        \E plot \in BodyPlots :
            \E i \in DOMAIN Plot_required_lib(plot) :
                Plot_required_lib(plot)[i] = lib}

CountLines(text, line) ==
    Cardinality({i \in DOMAIN text : text[i] = line})

\* C6: after calls of Document::add_picture / picture only, the import line
\* of every library required by some plot of the body occurs exactly once
\* in the rendered preamble.
C6_ImportLineOnce ==
    \A lib \in BodyLibs :
        CountLines(Preamble_fmt(document.preamble), PgfPlotsLib_fmt(lib)[1]) = 1

\* the elements of v in the order of their first occurrence
RECURSIVE FirstSeen(_)
FirstSeen(v) ==
    IF v = <<>> THEN <<>>
    ELSE LET front == FirstSeen(Front(v))
         IN  IF \E i \in DOMAIN front : front[i] = Last(v)
             THEN front
             ELSE Append(front, Last(v))

RECURSIVE PlotLibs(_)
PlotLibs(plots) ==
    IF plots = <<>> THEN <<>>
    ELSE Plot_required_lib(plots[1]) \o PlotLibs(Tail(plots))

RECURSIVE EnvLibs(_)
EnvLibs(envs) ==
    IF envs = <<>> THEN <<>>
    ELSE PlotLibs(envs[1].plots) \o EnvLibs(Tail(envs))

\* C7: required_libs of an Axis and of a TikzPicture is the union without
\* duplicates, in first-seen order, of the libraries required by the plots:
\* [Statistics] for two histograms, nothing for Draw and Plot2D.
C7_RequiredLibsDeduplicated ==
    \A i \in DOMAIN document.body :
        LET picture == document.body[i]
        IN  /\ TikzPicture_required_libs(picture)
                   = FirstSeen(EnvLibs(picture.inner_env))
            /\ \A j \in DOMAIN picture.inner_env :
                   Axis_required_libs(picture.inner_env[j])
                       = FirstSeen(PlotLibs(picture.inner_env[j].plots))

FixedVersions == {VERSIONS[i] : i \in DOMAIN VERSIONS}

\* C8: building a PgfPlotsCompat from a string succeeds exactly for the 19
\* fixed version strings and otherwise fails with BadCompatVersion carrying
\* the string, and the version of the preamble is always one of the 19.
C8_CompatVersionChecked ==
    /\ Cardinality(FixedVersions) = 19
    /\ document.preamble.pgfcompat.version \in FixedVersions
    /\ call.op \in {"set_pgfcompat_version", "with_pgfcompat_version"} =>
          /\ ret.tag = "Ok" <=> call.arg \in FixedVersions
          /\ ret.tag # "Ok" => ret = Err("BadCompatVersion", call.arg)
          /\ ret.tag = "Ok" => document.preamble.pgfcompat.version = call.arg

\* "3.0" is rejected after "1.18" was accepted
C8_Witness ==
    /\ call = Called("set_pgfcompat_version", "3.0")
    /\ ret = Err("BadCompatVersion", "3.0")
    /\ document.preamble.pgfcompat.version = "1.18"

\* C23: no two entries of the package list of the preamble have the same
\* name.
C23_PackageNamesDistinct ==
    \A i, j \in DOMAIN document.preamble.pkgs :
        document.preamble.pkgs[i].name = document.preamble.pkgs[j].name => i = j

\* C26: every library that a plot of the body requires is in the library
\* list of the preamble, after every call, and a call only appends to the
\* list: what was in it stays, at its place.
C26_RequiredLibsInPreamble ==
    /\ [](BodyLibs \subseteq {document.preamble.pgflibs[i] :
                                i \in DOMAIN document.preamble.pgflibs})
    /\ [][/\ Len(document'.preamble.pgflibs) >= Len(document.preamble.pgflibs)
          /\ SubSeq(document'.preamble.pgflibs, 1, Len(document.preamble.pgflibs))
                 = document.preamble.pgflibs]_vars

\* a picture with a histogram was added after the units library was added by
\* hand
C26_Witness ==
    /\ call.op = "add_picture"
    /\ BodyLibs = {"Statistics"}
    /\ document.preamble.pgflibs = <<"Units", "Statistics">>

---------------------------------------------------------------------------
(* Properties of the rendered text *)

\* the pieces of a line as one string
RECURSIVE LineString(_)
LineString(line) ==
    IF line = <<>> THEN "" ELSE line[1] \o LineString(Tail(line))

\* a text as the sequence of its lines, each a string
Lines(text) == [i \in 1..Len(text) |-> LineString(text[i])]

IsNotEmpty(string) == string # ""

C19_DocExampleText ==
    (document.preamble = Preamble_new /\ document.body = <<EmptyPicture>>) =>
        Lines(Document_standalone_string(document))
            = <<"\\documentclass{standalone}",
                "\\usepackage{pgfplots}",
                "",
                "\\begin{document}",
                "\\begin{tikzpicture}",
                "\\end{tikzpicture}",
                "\\end{document}">>

\* the line of a package: the name, and the options in brackets after it
\* when there are some
RECURSIVE Joined(_)
Joined(strings) ==
    IF Len(strings) = 1
    THEN strings[1]
    ELSE strings[1] \o ", " \o Joined(Tail(strings))

PackageLine(pkg) ==
    IF pkg.options = <<>>
    THEN "\\usepackage{" \o pkg.name \o "}"
    ELSE "\\usepackage{" \o pkg.name \o "}[" \o Joined(pkg.options) \o "]"

\* C20: the rendered preamble is, one per line and in this order: the
\* document class, \usepackage{pgfplots}, \pgfplotsset{compat=v} for the
\* version v assigned, one \usepgfplotslibrary line per library in the order
\* of the list, and one line per package in the order of insertion, with the
\* options in brackets, joined by ", ", exactly for a package that has some.
C20_PreambleLayout ==
    Lines(Preamble_fmt(document.preamble))
        = <<"\\documentclass{standalone}",
            "\\usepackage{pgfplots}",
            "\\pgfplotsset{compat=" \o document.preamble.pgfcompat.version \o "}">>
          \o [i \in 1..Len(document.preamble.pgflibs) |->
                 "\\usepgfplotslibrary{"
                     \o PgfPlotsLib_name(document.preamble.pgflibs[i]) \o "}"]
          \o [i \in 1..Len(document.preamble.pkgs) |->
                 PackageLine(document.preamble.pkgs[i])]
          \o <<"">>

\* version 1.18, the units library, then babel with two options and braket
C20_Witness ==
    /\ document.preamble.pgfcompat.version = "1.18"
    /\ document.preamble.pgflibs = <<"Units">>
    /\ Len(document.preamble.pkgs) = 2
    /\ document.preamble.pkgs[1].name = "babel"
    /\ Len(document.preamble.pkgs[1].options) = 2
    /\ document.preamble.pkgs[2].options = <<>>
    /\ Lines(Preamble_fmt(document.preamble))[5]
           = "\\usepackage{babel}[italian, english]"

\* the plots of the body as one sequence: picture after picture, axis after
\* axis, plot after plot
PlotSeq(body) ==
    Flatten([i \in 1..Len(body) |->
                Flatten([j \in 1..Len(body[i].inner_env) |->
                            body[i].inner_env[j].plots])])

\* "(x,y)" of a coordinate, and the error part after it
Point(c) == "(" \o ToString(c.x) \o "," \o ToString(c.y) \o ")"
ErrorPart(c) ==
    "\t+- (" \o ToString(IF c.error_x = <<>> THEN 0 ELSE c.error_x[1])
         \o "," \o ToString(IF c.error_y = <<>> THEN 0 ELSE c.error_y[1]) \o ")"

\* what a line of a coordinate can be
IsCoordinateLine(line) ==
    \E x, y \in 0..1 :
        \/ line = "\t\t" \o Point([x |-> x, y |-> y])
        \/ \E ex, ey \in {0, 5} :
              line = "\t\t" \o Point([x |-> x, y |-> y])
                     \o ErrorPart([error_x |-> <<ex>>, error_y |-> <<ey>>])

HasKind(options, kind) == \E i \in DOMAIN options : options[i].kind = kind

\* the coordinate lines of the plots, when the error part is written for the
\* coordinates that WithError(plot, c) selects
CoordinateLines(plots, WithError(_, _)) ==
    Flatten([k \in 1..Len(plots) |->
                IF plots[k].kind = "Plot2D"
                THEN [i \in 1..Len(plots[k].coordinates) |->
                         LET c == plots[k].coordinates[i]
                         IN  "\t\t" \o Point(c)
                             \o (IF WithError(plots[k], c) THEN ErrorPart(c) ELSE "")]
                ELSE <<>>])

HasMagnitude(plot, c) == c.error_x # <<>> \/ c.error_y # <<>>

HasMagnitudeAndDirection(plot, c) ==
    \/ c.error_x # <<>> /\ HasKind(plot.options, "XErrorDirection")
    \/ c.error_y # <<>> /\ HasKind(plot.options, "YErrorDirection")

\* C21 (as stated): a coordinate line carries the error part only when the
\* coordinate has a magnitude and its plot has the direction option of that
\* magnitude.
C21_ErrorPartNeedsDirection ==
    call.op = "standalone_string" =>
        SelectSeq(Lines(ret.value), IsCoordinateLine)
            = CoordinateLines(PlotSeq(document.body), HasMagnitudeAndDirection)

\* C21 (amended): a coordinate line carries the error part exactly when the
\* coordinate has a magnitude in x or in y, whatever the options of its plot;
\* a missing magnitude is written as 0, and a coordinate without magnitudes
\* is written as "(x,y)" alone.
C21_ErrorPartFromMagnitude ==
    call.op = "standalone_string" =>
        SelectSeq(Lines(ret.value), IsCoordinateLine)
            = CoordinateLines(PlotSeq(document.body), HasMagnitude)

\* a plot without options whose coordinates are (0,0) and then (1,0) with the
\* magnitude 5 in x was rendered
C21_Witness ==
    /\ call.op = "standalone_string"
    /\ \E k \in DOMAIN PlotSeq(document.body) :
           LET plot == PlotSeq(document.body)[k]
           IN  /\ plot.kind = "Plot2D"
               /\ plot.options = <<>>
               /\ plot.coordinates = <<Coordinate2D(0, 0, <<>>, <<>>),
                                       Coordinate2D(1, 0, <<5>>, <<>>)>>
    /\ SelectSeq(Lines(ret.value), IsCoordinateLine)
           = <<"\t\t(0,0)", "\t\t(1,0)\t+- (5,0)">>

\* the lines a node writes before its children: the opening line, and with
\* options one line per option and the line that closes them
HeaderLen(options) == IF options = <<>> THEN 1 ELSE Len(options) + 2

\* the lines of a node between its header and its last line
Inner(lines, options) == SubSeq(lines, HeaderLen(options) + 1, Len(lines) - 1)

\* C22: rendering keeps the order of the children at every level: the text of
\* the body is the texts of the pictures in order, the inside of a picture
\* the texts of its environments in order, the inside of an axis the texts of
\* its plots in order, the inside of a Plot2D its coordinates in order; each
\* child is there once and starts on a line of its own.
C22_ChildrenInOrder ==
    call.op = "standalone_string" =>
        LET lines == Lines(ret.value)
            body == document.body
            begin == CHOOSE i \in DOMAIN lines : lines[i] = "\\begin{document}"
        IN  /\ Cardinality({i \in DOMAIN lines : lines[i] = "\\begin{document}"}) = 1
            /\ lines[Len(lines)] = "\\end{document}"
            /\ SubSeq(lines, begin + 1, Len(lines) - 1)
                   = IF body = <<>> THEN <<"">>
                     ELSE Flatten([i \in 1..Len(body) |->
                                      Lines(TikzPicture_fmt(body[i]))])
            /\ \A i \in DOMAIN body :
                   /\ Inner(Lines(TikzPicture_fmt(body[i])), body[i].options)
                          = Flatten([j \in 1..Len(body[i].inner_env) |->
                                        Lines(TikzInnerEnv_fmt(body[i].inner_env[j]))])
                   /\ \A j \in DOMAIN body[i].inner_env :
                          LET axis == body[i].inner_env[j]
                          IN  Inner(Lines(Axis_fmt(axis)), axis.options)
                                  = Flatten([k \in 1..Len(axis.plots) |->
                                                Lines(Plot_fmt(axis.plots[k]))])
            /\ \A k \in DOMAIN PlotSeq(body) :
                   LET plot == PlotSeq(body)[k]
                   IN  plot.kind = "Plot2D" =>
                           Inner(Lines(Plot_fmt(plot)), plot.options)
                               = [i \in 1..Len(plot.coordinates) |->
                                     "\t\t" \o Lines(Coordinate2D_fmt(plot.coordinates[i]))[1]]

\* a plot whose coordinates are (1,1) and then (0,0) was rendered, and the
\* line of (1,1) comes right before the line of (0,0)
C22_Witness ==
    /\ call.op = "standalone_string"
    /\ \E k \in DOMAIN PlotSeq(document.body) :
           /\ PlotSeq(document.body)[k].kind = "Plot2D"
           /\ PlotSeq(document.body)[k].coordinates
                  = <<Coordinate2D(1, 1, <<>>, <<>>), Coordinate2D(0, 0, <<>>, <<>>)>>
    /\ \E i \in DOMAIN Lines(ret.value) :
           /\ Lines(ret.value)[i] = "\t\t(1,1)"
           /\ Lines(ret.value)[i + 1] = "\t\t(0,0)"

\* the header of a node as the rule of the attribute block has it: the
\* opening alone without options, and with options the opening followed by
\* the open bracket, one line per option, indented and ended by a comma, and
\* the line of the close bracket; rest is what the node writes after the
\* block on the same line
AttributeBlockHeader(open, indent, keys, close, rest) ==
    IF keys = <<>>
    THEN <<open \o rest>>
    ELSE <<open \o "[">>
         \o [i \in 1..Len(keys) |-> indent \o Lines(keys[i])[1] \o ","]
         \o <<close \o rest>>

\* C27: a TikzPicture, an Axis and a Plot2D render with an attribute block
\* exactly when they have options: with options the block has one line per
\* option, between the brackets; without options there is no bracket.
C27_AttributeBlockIffOptions ==
    /\ LET lines == Lines(TikzPicture_fmt([EmptyPicture EXCEPT !.options = pic_options]))
       IN  SubSeq(lines, 1, Len(lines) - 1)
               = AttributeBlockHeader("\\begin{tikzpicture}", "\t",
                     [i \in 1..Len(pic_options) |->
                         TikzPictureOption_fmt(pic_options[i])], "]", "")
    /\ LET lines == Lines(Axis_fmt([EmptyAxis EXCEPT !.options = axis_options]))
       IN  SubSeq(lines, 1, Len(lines) - 1)
               = AttributeBlockHeader("\\begin{axis}", "\t",
                     [i \in 1..Len(axis_options) |->
                         AxisOption_fmt(axis_options[i])], "]", "")
    /\ LET lines == Lines(Plot2D_fmt([Plot_new("Plot2D") EXCEPT !.options = plot_options]))
       IN  SubSeq(lines, 1, Len(lines) - 1)
               = AttributeBlockHeader("\t\\addplot", "\t\t",
                     [i \in 1..Len(plot_options) |->
                         PlotOption_fmt(plot_options[i])],
                     "\t]", " coordinates {")

\* C28: a call of set_pgfcompat_version with a string that is not one of the
\* fixed versions returns BadCompatVersion with the string and leaves the
\* document as it was: the version assigned before, the libraries, the
\* packages and the body.
C28_RejectedVersionChangesNothing ==
    [][(call'.op = "set_pgfcompat_version" /\ call'.arg \notin FixedVersions) =>
          /\ ret'.tag = "Err"
          /\ ret' = Err("BadCompatVersion", call'.arg)
          /\ document'.preamble.pgfcompat = document.preamble.pgfcompat
          /\ document'.preamble.pgflibs = document.preamble.pgflibs
          /\ document'.preamble.pkgs = document.preamble.pkgs
          /\ document'.body = document.body]_vars

\* "3.0" was rejected for a document of version 1.18 that has a library, two
\* packages and a picture
C28_Witness ==
    /\ call = Called("set_pgfcompat_version", "3.0")
    /\ ret.tag = "Err"
    /\ document.preamble.pgfcompat.version = "1.18"
    /\ document.preamble.pgflibs = <<"Statistics">>
    /\ Len(document.preamble.pkgs) = 2
    /\ Len(document.body) = 1

---------------------------------------------------------------------------
(* LatexOutput: the temporary directory and the compiler process *)

\* calls of Document::pdf in one behaviour
MaxRuns == 3
\* largest exit code a compiler process returns
MaxExitCode == 2

Engines == {"PdfLatex", "LuaLatex"}

\* process::ExitStatus: an exit code, or the signal that ended the process
ExitCode(n) == [kind |-> "code", n |-> n]
Signalled(n) == [kind |-> "signal", n |-> n]
NoStatus == [kind |-> "none", n |-> 0]
ExitStatuses == {ExitCode(n) : n \in 0..MaxExitCode} \cup {Signalled(9)}

\* ExitStatus::success
ExitStatus_success(status) == status.kind = "code" /\ status.n = 0

PdfOk(dir) ==
    [tag |-> "Ok", kind |-> "", engine |-> "", status |-> NoStatus, dir |-> dir]
PdfErr(kind, eng, status) ==
    [tag |-> "Err", kind |-> kind, engine |-> eng, status |-> status, dir |-> 0]
NoPdfRet ==
    [tag |-> "None", kind |-> "", engine |-> "", status |-> NoStatus, dir |-> 0]

\* an io::Error becomes the temporary-directory error
CompileError_from_TempDir(error) == PdfErr("TempDir", "", NoStatus)

\* From<io::Error> for CompileError, applied by the ? operator
CompileError_from(error) == PdfErr("IO", "", NoStatus)

\* the test of the exit status is inverted
LatexOutput_compile_status_Inverted(eng, status, dir) ==
    IF ExitStatus_success(status)
    THEN PdfErr("BadExitStatus", eng, status)
    ELSE PdfOk(dir)

\* the end of LatexOutput::compile and of Document::pdf: the exit status
\* decides between Err(BadExitStatus {engine, exit_status}) and Ok
LatexOutput_compile_status(eng, status, dir) ==
    IF ~ExitStatus_success(status)
    THEN PdfErr("BadExitStatus", eng, status)
    ELSE PdfOk(dir)

\* the directory is left behind
TempDir_drop_Leak(ds, dir) == ds

\* Drop for TempDir, run when the LatexOutput that owns it goes out of
\* scope: the directory and everything in it are removed
TempDir_drop(ds, dir) == ds \ {dir}

\* the last directory made is taken again
TmpBuilder_tempdir_Reuse(last) == IF last = 0 THEN 1 ELSE last

\* tempfile::Builder::tempdir: a directory that did not exist is created.
\* The directories of a behaviour are numbered in the order of creation.
TmpBuilder_tempdir(last) == last + 1

OutInit ==
    /\ pc = "idle"
    /\ engine = ""
    /\ next_dir = 0
    /\ dirs = {}
    /\ tex = {}
    /\ cur = 0
    /\ held = {}
    /\ proc = "none"
    /\ exit_status = NoStatus
    /\ pdf_ret = NoPdfRet

\* Document::pdf(engine) is called
DocumentPdfCall ==
    \E eng \in Engines :
        /\ pc = "idle"
        /\ next_dir < MaxRuns
        /\ pc' = "new"
        /\ engine' = eng
        /\ proc' = "none"
        /\ exit_status' = NoStatus
        /\ pdf_ret' = NoPdfRet
        /\ UNCHANGED <<next_dir, dirs, tex, cur, held>>
        /\ UNCHANGED <<optsVars, docVars, saveVars>>

\* LatexOutput::new, LatexOutputBuilder::build: tempdir() creates a new
\* directory or fails, and the failure is returned as TempDir
LatexOutputBuild ==
    \E created \in BOOLEAN :
        /\ pc = "new"
        /\ IF created
           THEN /\ next_dir' = TmpBuilder_tempdir(next_dir)
                /\ cur' = TmpBuilder_tempdir(next_dir)
                /\ dirs' = dirs \cup {TmpBuilder_tempdir(next_dir)}
                /\ pc' = "compile"
                /\ UNCHANGED pdf_ret
           ELSE /\ pdf_ret' = PdfErr("TempDir", "", NoStatus)
                /\ pc' = "idle"
                /\ UNCHANGED <<next_dir, cur, dirs>>
        /\ UNCHANGED <<engine, tex, held, proc, exit_status>>
        /\ UNCHANGED <<optsVars, docVars, saveVars>>

\* LatexOutput::compile: File::create and write_all.  On a failure the
\* error is returned and the LatexOutput is dropped, which removes its
\* directory.  With the tectonic feature, compile has returned before for
\* the Tectonic engine.
CompileWriteSource ==
    \E written \in BOOLEAN :
        /\ pc = "compile"
        /\ engine # "Tectonic"
        /\ IF written
           THEN /\ tex' = tex \cup {cur}
                /\ pc' = "spawn"
                /\ UNCHANGED <<pdf_ret, dirs, cur>>
           ELSE /\ pdf_ret' = CompileError_from("io::Error")
                /\ dirs' = TempDir_drop(dirs, cur)
                /\ cur' = 0
                /\ pc' = "idle"
                /\ UNCHANGED tex
        /\ UNCHANGED <<engine, next_dir, held, proc, exit_status>>
        /\ UNCHANGED <<optsVars, docVars, saveVars>>

\* Command::status, first half: the compiler is started, or it cannot be
CompileSpawn ==
    \E spawned \in BOOLEAN :
        /\ pc = "spawn"
        /\ IF spawned
           THEN /\ proc' = "running"
                /\ pc' = "wait"
                /\ UNCHANGED <<pdf_ret, dirs, tex, cur>>
           ELSE /\ proc' = "spawn_failed"
                /\ pdf_ret' = CompileError_from("io::Error")
                /\ dirs' = TempDir_drop(dirs, cur)
                /\ tex' = tex \ {cur}
                /\ cur' = 0
                /\ pc' = "idle"
        /\ UNCHANGED <<engine, next_dir, held, exit_status>>
        /\ UNCHANGED <<optsVars, docVars, saveVars>>

\* Command::status, second half: the compiler exits, and compile and pdf
\* return.  An Err drops the LatexOutput, an Ok hands it to the caller.
CompileWait ==
    \E status \in ExitStatuses :
        LET r == LatexOutput_compile_status(engine, status, cur)
        IN  /\ pc = "wait"
            /\ proc' = "exited"
            /\ exit_status' = status
            /\ pdf_ret' = r
            /\ IF r.tag = "Ok"
               THEN /\ held' = held \cup {cur}
                    /\ UNCHANGED <<dirs, tex>>
               ELSE /\ dirs' = TempDir_drop(dirs, cur)
                    /\ tex' = tex \ {cur}
                    /\ UNCHANGED held
            /\ cur' = 0
            /\ pc' = "idle"
            /\ UNCHANGED <<engine, next_dir>>
            /\ UNCHANGED <<optsVars, docVars, saveVars>>

\* the caller drops a LatexOutput it was given: TempDir::drop removes the
\* directory
LatexOutputDrop ==
    \E dir \in held :
        /\ pc = "idle"
        /\ held' = held \ {dir}
        /\ dirs' = TempDir_drop(dirs, dir)
        /\ tex' = tex \ {dir}
        /\ UNCHANGED <<pc, engine, next_dir, cur, proc, exit_status, pdf_ret>>
        /\ UNCHANGED <<optsVars, docVars, saveVars>>

\* Document::pdf(LatexEngine::Tectonic), in a build with the feature
\* tectonic
DocumentPdfTectonicCall ==
    /\ pc = "idle"
    /\ next_dir < MaxRuns
    /\ pc' = "new"
    /\ engine' = "Tectonic"
    /\ proc' = "none"
    /\ exit_status' = NoStatus
    /\ pdf_ret' = NoPdfRet
    /\ UNCHANGED <<next_dir, dirs, tex, cur, held>>
    /\ UNCHANGED <<optsVars, docVars, saveVars>>

\* LatexOutput::compile with the Tectonic engine: compile_tectonic is
\* returned at once, before File::create.  It opens the configuration, the
\* bundle and the format cache, which can fail, then builds a processing
\* session on tex_file_path() and runs it; the session fails or succeeds.
\* Every error is returned as CompileError::Tectonic.
CompileTectonic ==
    \E outcome \in {"no_session", "failed", "succeeded"} :
        /\ pc = "compile"
        /\ engine = "Tectonic"
        /\ proc' = IF outcome = "no_session" THEN proc ELSE "ran"
        /\ IF outcome = "succeeded"
           THEN /\ pdf_ret' = PdfOk(cur)
                /\ held' = held \cup {cur}
                /\ UNCHANGED dirs
           ELSE /\ pdf_ret' = PdfErr("Tectonic", "", NoStatus)
                /\ dirs' = TempDir_drop(dirs, cur)
                /\ UNCHANGED held
        /\ cur' = 0
        /\ pc' = "idle"
        /\ UNCHANGED <<engine, next_dir, tex, exit_status>>
        /\ UNCHANGED <<optsVars, docVars, saveVars>>

OutNext ==
    \/ DocumentPdfCall
    \/ LatexOutputBuild
    \/ CompileWriteSource
    \/ CompileSpawn
    \/ CompileWait
    \/ LatexOutputDrop

\* the build with the feature tectonic, which adds LatexEngine::Tectonic
TectonicNext ==
    \/ DocumentPdfCall
    \/ DocumentPdfTectonicCall
    \/ LatexOutputBuild
    \/ CompileWriteSource
    \/ CompileTectonic
    \/ CompileSpawn
    \/ CompileWait
    \/ LatexOutputDrop

---------------------------------------------------------------------------
(* Properties of the compile pipeline *)

\* C9: with an external engine the result follows the exit status alone: Ok
\* exactly when the compiler exited with status zero, and otherwise
\* BadExitStatus with the engine used and the exit status.
C9_ExitStatusDecides ==
    pc = "idle" =>
        /\ pdf_ret.tag = "Ok" <=>
              (proc = "exited" /\ exit_status = ExitCode(0))
        /\ (proc = "exited" /\ exit_status # ExitCode(0)) =>
              pdf_ret = PdfErr("BadExitStatus", engine, exit_status)

\* lualatex exited with code 1
C9_Witness ==
    /\ pc = "idle"
    /\ proc = "exited"
    /\ exit_status = ExitCode(1)
    /\ pdf_ret = PdfErr("BadExitStatus", "LuaLatex", ExitCode(1))

\* C10: when the compiler cannot be started the error is IO and not
\* BadExitStatus; BadExitStatus is returned only after a process ran to
\* its end.
C10_SpawnFailureIsIO ==
    /\ proc = "spawn_failed" => (pdf_ret.tag = "Err" /\ pdf_ret.kind = "IO")
    /\ pdf_ret.kind = "BadExitStatus" => proc = "exited"

\* the compiler could not be started in the second run
C10_Witness ==
    /\ proc = "spawn_failed"
    /\ pc = "idle"
    /\ pdf_ret.kind = "IO"
    /\ next_dir = 2

\* C11: the temporary directory is cleaned up on every exit path.  When
\* Document::pdf has returned, the only temporary directories that exist are
\* those of the LatexOutputs returned and not yet dropped, so none is left
\* by a call that returned an error; the directory of a successful call
\* exists when the call returns and as long as its LatexOutput is held, and
\* it is removed when the LatexOutput is dropped.
C11_WorkspaceCleanedUp ==
    /\ [](held \subseteq dirs)
    /\ [](pc = "idle" => dirs = held)
    /\ [][/\ (pc # "idle" /\ pc' = "idle" /\ pdf_ret'.tag = "Err") =>
                /\ cur \notin dirs'
                /\ held' = held
          /\ (pc # "idle" /\ pc' = "idle" /\ pdf_ret'.tag = "Ok") =>
                /\ pdf_ret'.dir = cur
                /\ cur \in dirs'
                /\ cur \in held'
          /\ \A dir \in held \ held' : dir \notin dirs']_vars

\* the first call succeeded and its output is still held, the second call
\* failed with a bad exit status and left nothing behind
C11_Witness ==
    /\ pc = "idle"
    /\ pdf_ret.kind = "BadExitStatus"
    /\ next_dir = 2
    /\ held = {1}
    /\ dirs = {1}

\* C24: an engine, external or in-process, is started only when the source
\* file of the workspace has been written, and a call that failed to write
\* it has run no compiler.
C24_SourceWrittenBeforeCompiler ==
    /\ [][(proc' # proc /\ proc' \in {"running", "ran"}) => cur \in tex]_vars
    /\ [][(pc = "compile" /\ pc' = "idle" /\ cur \notin tex) =>
              /\ proc' = "none"
              /\ pdf_ret'.tag = "Err"]_vars

\* C25: every call of Document::pdf works in a directory of its own, made
\* for it and never used before, with the engine it was given, and starts
\* the compiler at most once: the compiler is started only by a call that
\* has not started it, and a call that failed is over.
C25_OneAttemptPerWorkspace ==
    /\ [](cur # 0 => (cur = next_dir /\ cur \in dirs /\ cur \notin held))
    /\ [][/\ next_dir' >= next_dir
          /\ (pc = "new" /\ pc' = "compile") =>
                (cur' = next_dir' /\ next_dir' > next_dir /\ cur' \notin dirs)
          /\ (proc' = "running" /\ proc # "running") =>
                (proc = "none" /\ pc = "spawn")
          /\ proc \in {"exited", "spawn_failed"} =>
                (proc' = proc \/ (pc = "idle" /\ pc' = "new" /\ proc' = "none"))
          /\ pc # "idle" => engine' = engine
          /\ (pc # "idle" /\ pdf_ret'.tag = "Err") => (pc' = "idle" /\ cur' = 0)]_vars

\* the second call failed with a bad exit status in the second directory,
\* while the output of the first call is still held
C25_Witness ==
    /\ pc = "idle"
    /\ proc = "exited"
    /\ pdf_ret.kind = "BadExitStatus"
    /\ next_dir = 2
    /\ held = {1}

---------------------------------------------------------------------------
(* LatexOutput::save and the file system it works on.  A path is the       *)
(* sequence of its components, relative to the working directory; the      *)
(* empty sequence is the empty path.                                       *)

\* components of the longest destination path
MaxDepth == 3

\* the destinations d, d/d, d/d/d, ... and the empty path
Chain == {[i \in 1..k |-> "d"] : k \in 1..MaxDepth}
SavePaths == {<<>>} \cup Chain

\* PathBuf::file_name of LatexOutput::output_path: the file stem "pgfplot"
\* of the builder with the extension of LatexOutputType::Pdf
LatexOutput_output_file_name == "pgfplot.pdf"

\* Path::join
Path_join(path, name) == Append(path, name)

\* Path::parent: None for the empty path, else the path without its last
\* component (the empty path for a single component)
Path_parent(path) ==
    IF path = <<>>
    THEN [some |-> FALSE, path |-> <<>>]
    ELSE [some |-> TRUE, path |-> SubSeq(path, 1, Len(path) - 1)]

\* every path the file system has an entry for
FsNodes == Chain \cup {Path_join(p, LatexOutput_output_file_name) : p \in Chain}

Absent == [kind |-> "absent", search |-> FALSE, data |-> ""]
Directory(search) == [kind |-> "dir", search |-> search, data |-> ""]
RegularFile(data) == [kind |-> "file", search |-> FALSE, data |-> data]
\* a fifo, a socket or a device
SpecialFile == [kind |-> "special", search |-> FALSE, data |-> ""]

EmptyFs == [p \in FsNodes |-> Absent]

\* the file systems a call of save can find: an entry exists only inside a
\* directory
FileSystems ==
    {f \in [FsNodes -> {Absent, Directory(TRUE), Directory(FALSE),
                        RegularFile("old"), SpecialFile}] :
        \A p \in FsNodes :
            /\ (Len(p) > 1 /\ f[p].kind # "absent") =>
                  f[SubSeq(p, 1, Len(p) - 1)].kind = "dir"
            /\ p \notin Chain => f[p] \in {Absent, Directory(TRUE),
                                           RegularFile("old")}}

MetaOk(kind) == [tag |-> "Ok", kind |-> kind]
MetaErr(kind) == [tag |-> "Err", kind |-> kind]

\* the first proper prefix of path that is not a directory open to search,
\* 0 if there is none
FirstBlocked(f, path) ==
    IF \E i \in 1..(Len(path) - 1) : f[SubSeq(path, 1, i)] # Directory(TRUE)
    THEN CHOOSE i \in 1..(Len(path) - 1) :
            /\ f[SubSeq(path, 1, i)] # Directory(TRUE)
            /\ \A j \in 1..(i - 1) : f[SubSeq(path, 1, j)] = Directory(TRUE)
    ELSE 0

\* fs::metadata(path): the metadata of the entry, or the io::Error of the
\* first component that stops the lookup
fs_metadata(f, path) ==
    IF path = <<>>
    THEN MetaErr("NotFound")
    ELSE LET i == FirstBlocked(f, path)
             entry == f[SubSeq(path, 1, i)]
         IN  IF i # 0
             THEN CASE entry.kind = "absent" -> MetaErr("NotFound")
                    [] entry.kind = "dir" -> MetaErr("PermissionDenied")
                    [] OTHER -> MetaErr("NotADirectory")
             ELSE IF f[path].kind = "absent"
                  THEN MetaErr("NotFound")
                  ELSE MetaOk(f[path].kind)

Metadata_is_dir(metadata) == metadata.kind = "dir"
Metadata_is_file(metadata) == metadata.kind = "file"

\* the prefixes of path that do not exist
Missing(f, path) == {i \in 1..Len(path) : f[SubSeq(path, 1, i)].kind = "absent"}

\* fs::create_dir in the place of create_dir_all: the last directory only,
\* which needs the one above it
fs_create_dir_all_Last(f, path, made) ==
    LET above == SubSeq(path, 1, Len(path) - 1)
        can == /\ path # <<>>
               /\ f[path].kind = "absent"
               /\ above # <<>> => f[above] = Directory(TRUE)
               /\ made > 0
    IN  [fs |-> IF can THEN [f EXCEPT ![path] = Directory(TRUE)] ELSE f,
         ok |-> can \/ path = <<>>]

\* fs::create_dir_all(path): the missing directories of the chain are made
\* from the outermost inwards, and the call fails at the first one that
\* cannot be made; made is the number the environment lets it make.  The
\* empty path is Ok and makes nothing.
fs_create_dir_all(f, path, made) ==
    LET missing == Missing(f, path)
        done == {i \in missing : Cardinality({j \in missing : j <= i}) <= made}
    IN  [fs |-> [p \in FsNodes |->
                    IF \E i \in done : p = SubSeq(path, 1, i)
                    THEN Directory(TRUE)
                    ELSE f[p]],
         ok |-> done = missing]

SaveOk(value) == [tag |-> "Ok", kind |-> "", value |-> value, path |-> <<>>]
SaveErr(kind, path) == [tag |-> "Err", kind |-> kind, value |-> FALSE, path |-> path]
\* unreachable!() was reached: the thread panics
SavePanic == [tag |-> "Panic", kind |-> "", value |-> FALSE, path |-> <<>>]
NoSaveRet == [tag |-> "None", kind |-> "", value |-> FALSE, path |-> <<>>]

\* the closure copy of save: fs::copy(&output_path, path) and Ok(true), or
\* SaveFail(path, error).  fs::copy fails on a directory and inside a
\* directory closed to search, and when the environment makes it fail
\* (copied = "no": nothing written, "partly": the destination is cut short).
save_copy(f, path, copied) ==
    LET parent == Path_parent(path).path
        can == /\ f[path].kind # "dir"
               /\ parent # <<>> => f[parent] = Directory(TRUE)
    IN  IF can /\ copied = "yes"
        THEN [fs |-> [f EXCEPT ![path] = RegularFile("pdf")],
              ret |-> SaveOk(TRUE)]
        ELSE [fs |-> IF can /\ copied = "partly"
                     THEN [f EXCEPT ![path] = RegularFile("partial")]
                     ELSE f,
              ret |-> SaveErr("SaveFail", path)]

\* what a call of save leaves: the file system, the value returned, and
\* whether the closure overwrite was run
Saved(f, r, a) == [fs |-> f, ret |-> r, asked |-> a]

\* the copy goes to the directory itself
save_is_dir_Onto(f, path, copied) ==
    LET c == save_copy(f, path, copied)
    IN  Saved(c.fs, c.ret, FALSE)

\* the arm of save for a destination that is a directory: the copy goes
\* into it under the file name of the output, and overwrite is not run
save_is_dir(f, path, copied) ==
    LET c == save_copy(f, Path_join(path, LatexOutput_output_file_name), copied)
    IN  Saved(c.fs, c.ret, FALSE)

\* an error of overwrite is taken for the answer false
save_is_file_ErrorIsFalse(f, path, overwrite, copied) ==
    IF overwrite.tag = "Ok" /\ overwrite.value
    THEN LET c == save_copy(f, path, copied)
         IN  Saved(c.fs, c.ret, TRUE)
    ELSE Saved(f, SaveOk(FALSE), TRUE)

\* the copy is made whatever overwrite answers
save_is_file_Always(f, path, overwrite, copied) ==
    LET c == save_copy(f, path, copied)
    IN  Saved(c.fs, c.ret, TRUE)

\* the arm of save for a destination that is a regular file: overwrite is
\* run, its error is returned by ?, and the copy is made if it answers true
save_is_file(f, path, overwrite, copied) ==
    IF overwrite.tag = "Err"
    THEN Saved(f, SaveErr("Overwrite", <<>>), TRUE)
    ELSE IF overwrite.value
    THEN LET c == save_copy(f, path, copied)
         IN  Saved(c.fs, c.ret, TRUE)
    ELSE Saved(f, SaveOk(FALSE), TRUE)

\* path.parent() is unwrapped
save_not_found_Unwrap(f, path, made, copied) ==
    LET parent == Path_parent(path)
        parent_metadata == fs_metadata(f, parent.path)
    IN  IF ~parent.some
        THEN Saved(f, SavePanic, FALSE)
        ELSE IF parent_metadata.tag = "Ok" /\ Metadata_is_dir(parent_metadata)
        THEN LET c == save_copy(f, path, copied)
             IN  Saved(c.fs, c.ret, FALSE)
        ELSE IF parent_metadata.tag = "Err" /\ parent_metadata.kind = "NotFound"
        THEN LET m == fs_create_dir_all(f, parent.path, made)
                 c == save_copy(m.fs, path, copied)
             IN  IF ~m.ok
                 THEN Saved(m.fs, SaveErr("CreateDestDir", <<>>), FALSE)
                 ELSE Saved(c.fs, c.ret, FALSE)
        ELSE IF parent_metadata.tag = "Err"
                /\ parent_metadata.kind = "PermissionDenied"
        THEN Saved(f, SaveErr("PermissionDenied", <<>>), FALSE)
        ELSE IF parent_metadata.tag = "Err"
        THEN Saved(f, SaveErr("Other", <<>>), FALSE)
        ELSE Saved(f, SavePanic, FALSE)

\* the arm of save for a destination that is not found: the match on the
\* metadata of the parent
save_not_found(f, path, made, copied) ==
    LET parent == Path_parent(path)
        parent_metadata == fs_metadata(f, parent.path)
    IN  IF ~parent.some
        THEN Saved(f, SaveErr("InvalidPath", path), FALSE)
        ELSE IF parent_metadata.tag = "Ok" /\ Metadata_is_dir(parent_metadata)
        THEN LET c == save_copy(f, path, copied)
             IN  Saved(c.fs, c.ret, FALSE)
        ELSE IF parent_metadata.tag = "Err" /\ parent_metadata.kind = "NotFound"
        THEN LET m == fs_create_dir_all(f, parent.path, made)
                 c == save_copy(m.fs, path, copied)
             IN  IF ~m.ok
                 THEN Saved(m.fs, SaveErr("CreateDestDir", <<>>), FALSE)
                 ELSE Saved(c.fs, c.ret, FALSE)
        ELSE IF parent_metadata.tag = "Err"
                /\ parent_metadata.kind = "PermissionDenied"
        THEN Saved(f, SaveErr("PermissionDenied", <<>>), FALSE)
        ELSE IF parent_metadata.tag = "Err"
        THEN Saved(f, SaveErr("Other", <<>>), FALSE)
        ELSE Saved(f, SavePanic, FALSE)

\* a permission failure on the destination is reported like any other error
LatexOutput_save_Other(f, path, overwrite, made, copied) ==
    LET metadata == fs_metadata(f, path)
    IN  IF metadata.tag = "Ok"
        THEN IF Metadata_is_dir(metadata)
             THEN save_is_dir(f, path, copied)
             ELSE IF Metadata_is_file(metadata)
             THEN save_is_file(f, path, overwrite, copied)
             ELSE Saved(f, SavePanic, FALSE)
        ELSE IF metadata.kind = "NotFound"
        THEN save_not_found(f, path, made, copied)
        ELSE Saved(f, SaveErr("Other", <<>>), FALSE)

\* LatexOutput::save(path, overwrite): the match on the metadata of the
\* destination
LatexOutput_save(f, path, overwrite, made, copied) ==
    LET metadata == fs_metadata(f, path)
    IN  IF metadata.tag = "Ok"
        THEN IF Metadata_is_dir(metadata)
             THEN save_is_dir(f, path, copied)
             ELSE IF Metadata_is_file(metadata)
             THEN save_is_file(f, path, overwrite, copied)
             ELSE Saved(f, SavePanic, FALSE)
        ELSE IF metadata.kind = "NotFound"
        THEN save_not_found(f, path, made, copied)
        ELSE IF metadata.kind = "PermissionDenied"
        THEN Saved(f, SaveErr("PermissionDenied", <<>>), FALSE)
        ELSE Saved(f, SaveErr("Other", <<>>), FALSE)

\* the values the closure overwrite returns
OverwriteAnswers == {[tag |-> "Ok", value |-> TRUE],
                     [tag |-> "Ok", value |-> FALSE],
                     [tag |-> "Err", value |-> FALSE]}

\* a call of save: the path and the closure it is given, and what the
\* environment lets create_dir_all and copy do during the call
SaveCalled(path, overwrite, made, copied) ==
    [path |-> path, overwrite |-> overwrite, made |-> made, copied |-> copied]

NoSaveCall == SaveCalled(<<>>, [tag |-> "None", value |-> FALSE], 0, "")

\* no LatexOutput::save was called
SaveInit ==
    /\ fs = EmptyFs
    /\ fs_before = EmptyFs
    /\ save_call = NoSaveCall
    /\ save_ret = NoSaveRet
    /\ asked = FALSE

\* the LatexOutput returned by Document::pdf is saved to path
LatexOutputSaveCall ==
    \E path \in SavePaths, overwrite \in OverwriteAnswers,
       made \in 0..MaxDepth, copied \in {"yes", "no", "partly"} :
        LET r == LatexOutput_save(fs, path, overwrite, made, copied)
        IN  /\ held # {}
            /\ save_ret = NoSaveRet
            /\ fs_before' = fs
            /\ fs' = r.fs
            /\ save_ret' = r.ret
            /\ asked' = r.asked
            /\ save_call' = SaveCalled(path, overwrite, made, copied)
            /\ UNCHANGED <<optsVars, docVars, outVars>>

SaveNext == LatexOutputSaveCall

---------------------------------------------------------------------------
(* Properties of LatexOutput::save *)

\* save was called and has returned or panicked
SaveDone == save_ret # NoSaveRet

Prefix(path, i) == SubSeq(path, 1, i)

\* every directory above path exists and is open to search
Searchable(f, path) ==
    \A i \in 1..(Len(path) - 1) : f[Prefix(path, i)] = Directory(TRUE)

\* the lookup of path ends at a component that does not exist
NotExists(f, path) ==
    /\ path # <<>>
    /\ \E i \in 1..Len(path) :
           /\ f[Prefix(path, i)].kind = "absent"
           /\ \A j \in 1..(i - 1) : f[Prefix(path, j)] = Directory(TRUE)

\* the lookup of path ends at a directory closed to search
Denied(f, path) ==
    \E i \in 1..(Len(path) - 1) :
        /\ f[Prefix(path, i)] = Directory(FALSE)
        /\ \A j \in 1..(i - 1) : f[Prefix(path, j)] = Directory(TRUE)

\* the file system is the one of before the call outside the paths of S
OnlyChanged(S) == \A p \in FsNodes \ S : fs[p] = fs_before[p]

Artifacts == {p \in FsNodes : fs[p] = RegularFile("pdf")}

\* C12: when the destination is a regular file, save runs the overwrite
\* closure; it copies over the destination only if the closure answers true,
\* and on false it returns Ok(false) and leaves the file system as it was.
C12_OverwriteDecides ==
    (/\ SaveDone
     /\ save_call.path # <<>>
     /\ Searchable(fs_before, save_call.path)
     /\ fs_before[save_call.path].kind = "file") =>
        /\ asked
        /\ OnlyChanged({save_call.path})
        /\ fs[save_call.path] # fs_before[save_call.path] =>
              save_call.overwrite = [tag |-> "Ok", value |-> TRUE]
        /\ save_call.overwrite = [tag |-> "Ok", value |-> FALSE] =>
              /\ save_ret = SaveOk(FALSE)
              /\ fs = fs_before
        /\ (save_call.overwrite = [tag |-> "Ok", value |-> TRUE]
            /\ save_call.copied = "yes") =>
              /\ save_ret = SaveOk(TRUE)
              /\ fs[save_call.path] = RegularFile("pdf")

\* d/d is an old file and the closure answered false
C12_Witness ==
    /\ save_call.path = <<"d", "d">>
    /\ fs_before[<<"d", "d">>] = RegularFile("old")
    /\ save_call.overwrite = [tag |-> "Ok", value |-> FALSE]
    /\ save_call.copied = "yes"
    /\ asked
    /\ save_ret = SaveOk(FALSE)
    /\ fs[<<"d", "d">>] = RegularFile("old")

\* C13: when the destination does not exist, save makes the directories of
\* the parent chain that are missing, none if the parent exists, and then
\* copies; a call that succeeds returns true and leaves the artifact at the
\* destination, as the only copy, and it succeeds when the environment lets
\* the directories be made and the copy be written.
C13_MissingParentsCreated ==
    (SaveDone /\ NotExists(fs_before, save_call.path)) =>
        /\ ~asked
        /\ save_ret.tag \in {"Ok", "Err"}
        /\ save_ret.tag = "Ok" =>
              /\ save_ret = SaveOk(TRUE)
              /\ Artifacts = {save_call.path}
              /\ \A p \in FsNodes \ {save_call.path} :
                     fs[p] = IF /\ \E i \in 1..(Len(save_call.path) - 1) :
                                       p = Prefix(save_call.path, i)
                                /\ fs_before[p].kind = "absent"
                             THEN Directory(TRUE)
                             ELSE fs_before[p]
        /\ (/\ save_call.copied = "yes"
            /\ save_call.made >= Cardinality(
                   {i \in 1..(Len(save_call.path) - 1) :
                       fs_before[Prefix(save_call.path, i)].kind = "absent"})) =>
              save_ret.tag = "Ok"

\* nothing exists, the destination is d/d/d: d and d/d are made
C13_Witness ==
    /\ save_call.path = <<"d", "d", "d">>
    /\ fs_before = EmptyFs
    /\ save_ret = SaveOk(TRUE)
    /\ fs[<<"d">>] = Directory(TRUE)
    /\ fs[<<"d", "d">>] = Directory(TRUE)
    /\ fs[<<"d", "d", "d">>] = RegularFile("pdf")

\* C14: when the destination is a directory, save copies the artifact to
\* pgfplot.pdf inside it and does not run the overwrite closure, also when
\* that file exists; it returns true when the copy succeeds and SaveFail
\* with the path of that file when it does not.
C14_IntoDirectory ==
    (/\ SaveDone
     /\ save_call.path # <<>>
     /\ Searchable(fs_before, save_call.path)
     /\ fs_before[save_call.path].kind = "dir") =>
        LET target == Append(save_call.path, "pgfplot.pdf")
        IN  /\ ~asked
            /\ OnlyChanged({target})
            /\ \/ save_ret = SaveOk(TRUE) /\ fs[target] = RegularFile("pdf")
               \/ save_ret = SaveErr("SaveFail", target)
                  /\ fs[target] # RegularFile("pdf")
            /\ (/\ save_call.copied = "yes"
                /\ fs_before[save_call.path].search
                /\ fs_before[target].kind # "dir") =>
                  save_ret = SaveOk(TRUE)

\* d is a directory that holds an old pgfplot.pdf, which is replaced
C14_Witness ==
    /\ save_call.path = <<"d">>
    /\ fs_before[<<"d">>] = Directory(TRUE)
    /\ fs_before[<<"d", "pgfplot.pdf">>] = RegularFile("old")
    /\ save_call.overwrite = [tag |-> "Ok", value |-> FALSE]
    /\ ~asked
    /\ save_ret = SaveOk(TRUE)
    /\ fs[<<"d", "pgfplot.pdf">>] = RegularFile("pdf")

\* C15: save returns Ok or Err for every state of the destination and of
\* its parent; it never panics.
C15_SaveNeverPanics == SaveDone => save_ret.tag \in {"Ok", "Err"}

\* C16: when the lookup of the destination or of its parent is refused by a
\* directory closed to search, save returns PermissionDenied, makes no
\* directory and copies nothing; PermissionDenied is returned in no other
\* case.
C16_PermissionDeniedDistinct ==
    SaveDone =>
        /\ Denied(fs_before, save_call.path) =>
              /\ save_ret = SaveErr("PermissionDenied", <<>>)
              /\ fs = fs_before
              /\ ~asked
        /\ save_ret.kind = "PermissionDenied" => Denied(fs_before, save_call.path)

\* d is closed to search and the destination is d/d
C16_Witness ==
    /\ save_call.path = <<"d", "d">>
    /\ fs_before[<<"d">>] = Directory(FALSE)
    /\ save_call.copied = "yes"
    /\ save_ret = SaveErr("PermissionDenied", <<>>)
    /\ fs = fs_before

\* C17: save to the empty path, which has no parent, returns InvalidPath
\* with that path, makes no directory and copies nothing; InvalidPath is
\* returned for no other path.
C17_InvalidPath ==
    SaveDone =>
        /\ save_call.path = <<>> =>
              /\ save_ret = SaveErr("InvalidPath", <<>>)
              /\ fs = fs_before
              /\ ~asked
        /\ save_ret.kind = "InvalidPath" => save_call.path = <<>>

\* the empty path, with an environment that would let everything succeed
C17_Witness ==
    /\ SaveDone
    /\ save_call.path = <<>>
    /\ save_call.copied = "yes"
    /\ save_call.made > 0
    /\ save_ret = SaveErr("InvalidPath", <<>>)

\* C30: save runs the overwrite closure exactly when the destination is a
\* regular file; it returns Ok(false) only when the closure was run and
\* answered false, and then nothing was written; it returns Ok(true) only
\* after a copy was completed, and if the closure was run only when it
\* answered true; an error of the closure is returned and nothing is copied.
C30_OverwriteConsulted ==
    SaveDone =>
        /\ asked <=> (/\ save_call.path # <<>>
                      /\ Searchable(fs_before, save_call.path)
                      /\ fs_before[save_call.path].kind = "file")
        /\ save_ret = SaveOk(FALSE) =>
              /\ asked
              /\ save_call.overwrite = [tag |-> "Ok", value |-> FALSE]
              /\ fs = fs_before
        /\ save_ret = SaveOk(TRUE) =>
              /\ save_call.copied = "yes"
              /\ \E p \in FsNodes : /\ fs[p] = RegularFile("pdf")
                                    /\ fs_before[p] # RegularFile("pdf")
              /\ asked => save_call.overwrite = [tag |-> "Ok", value |-> TRUE]
        /\ (asked /\ save_call.overwrite.tag = "Err") =>
              /\ save_ret = SaveErr("Overwrite", <<>>)
              /\ fs = fs_before

\* the destination is an old file and the closure returned an error
C30_Witness ==
    /\ SaveDone
    /\ save_call.path # <<>>
    /\ fs_before[save_call.path].kind = "file"
    /\ save_call.overwrite.tag = "Err"
    /\ asked
    /\ save_ret = SaveErr("Overwrite", <<>>)

---------------------------------------------------------------------------
(* Specifications *)

InitOpts == OptsInit /\ DocInit /\ OutInit /\ SaveInit

SpecOpts == InitOpts /\ [][OptsNext]_vars

InitDoc == OptsInit /\ DocInit /\ OutInit /\ SaveInit

SpecPictures == InitDoc /\ [][PicturesNext]_vars

SpecCompat == InitDoc /\ [][CompatNext]_vars

SpecLibs == InitDoc /\ [][LibsNext]_vars

\* any of the documents, before a call
InitRender ==
    /\ OptsInit /\ OutInit /\ SaveInit
    /\ document \in Documents
    /\ call = NoCall
    /\ ret = NoRet

SpecRender == InitRender /\ [][RenderNext]_vars

InitOut == OptsInit /\ DocInit /\ OutInit /\ SaveInit

SpecOut == InitOut /\ [][OutNext]_vars

SpecTectonic == InitOut /\ [][TectonicNext]_vars

\* Document::pdf returned Ok with the LatexOutput of directory 1, which is
\* held, and the file system is any the call of save can find; save is
\* applied once to each
InitSave ==
    /\ OptsInit
    /\ DocInit
    /\ pc = "idle"
    /\ engine = "PdfLatex"
    /\ next_dir = 1
    /\ dirs = {1}
    /\ tex = {1}
    /\ cur = 0
    /\ held = {1}
    /\ proc = "exited"
    /\ exit_status = ExitCode(0)
    /\ pdf_ret = PdfOk(1)
    /\ fs \in FileSystems
    /\ fs_before = fs
    /\ save_call = NoSaveCall
    /\ save_ret = NoSaveRet
    /\ asked = FALSE

SpecSave == InitSave /\ [][SaveNext]_vars

===========================================================================
